---- MODULE Spec2Model ----
(***************************************************************************)
(* Fleet tyre management: the wheel-position layout of a vehicle           *)
(* (generateTyreSlots of the vehicle detail page and its copy for the      *)
(* position dropdown, getPositionOptionsForVehicle) and the assignment of  *)
(* a vehicle's tyres to the generated slots (matchTyresToSlots).           *)
(***************************************************************************)
EXTENDS Integers, Sequences, FiniteSets, TLC

VARIABLES
    vehicle,          \* the Vehicle record on screen: [type, axleCount]
    vehicleTyres,     \* the Tyre[] returned with the vehicle, in server order
    category,         \* VehicleDetailPage: const category
    slots,            \* VehicleDetailPage: const slots
    tyreMap,          \* matchTyresToSlots: const result (a Map slot id -> Tyre | null)
    usedTyres,        \* matchTyresToSlots: const usedTyres (a Set of tyre ids)
    positionOptions,  \* TyreFormFields: const positionOptions
    formCategory,     \* getPositionOptionsForVehicle: const category
    pcPage,           \* position of the vehicle detail page
    pcForm,           \* position of the tyre form
    fleets,           \* rows of the table fleets
    fleetMembers,     \* rows of the table fleet_members
    vehicles,         \* rows of the table vehicles
    tyreRows,         \* rows of the table tyres
    stockItems,       \* rows of the table stock_items
    alerts,           \* rows of the table alerts
    nextId,           \* how many ids gen_random_uuid() has handed out
    request,          \* the request the server is handling
    response,         \* the status it answered with, and the fields zod refused
    inflight          \* the handlers that run side by side, each between two awaits

vars == <<vehicle, vehicleTyres, category, slots, tyreMap, usedTyres,
          positionOptions, formCategory, pcPage, pcForm,
          fleets, fleetMembers, vehicles, tyreRows, stockItems, alerts,
          nextId, request, response, inflight>>

\* what the pages hold
pageVars == <<vehicle, vehicleTyres, category, slots, tyreMap, usedTyres,
              positionOptions, formCategory, pcPage, pcForm>>

\* what the database holds
storeVars == <<fleets, fleetMembers, vehicles, tyreRows, stockItems, alerts, nextId>>

\* what the server holds
serverVars == <<fleets, fleetMembers, vehicles, tyreRows, stockItems, alerts,
                nextId, request, response, inflight>>

-----------------------------------------------------------------------------
(* Bounds of the model and constants of the program *)

\* axleCount: z.number().min(1).max(10)
MinAxleCount == 1
MaxAxleCount == 10
\* longest tyre list handed to the matcher
MaxTyres == 3
\* largest axle count of a vehicle whose tyres are matched
MaxMatchAxles == 4

\* a tyre's position column is nullable
NULL == "NULL"
\* a Map entry set to null / a value of type Tyre | null
None == <<>>
Some(t) == <<t>>

\* the type strings offered by the vehicle form, those only the label table
\* knows, and one no code knows
VehicleTypes ==
    {"light_vehicle", "service_vehicle", "truck", "dump_truck", "bus",
     "trailer", "van", "car", "hovercraft"}

tyrePositionEnum ==
    {"front_left", "front_right", "rear_left", "rear_right",
     "spare", "inner_left", "inner_right", "outer_left", "outer_right"}

\* createTyreSchema.position as z.string().nullable().optional()
createTyreSchemaPositionString(p) == TRUE

\* createTyreSchema.position: z.enum([...]).nullable().optional()
createTyreSchemaPosition(p) ==
    \/ p = NULL
    \/ p \in {"front_left", "front_right", "rear_left", "rear_right", "spare",
              "inner_left", "inner_right", "outer_left", "outer_right"}

-----------------------------------------------------------------------------
(* vehicle-detail.tsx: getVehicleCategory *)

\* getVehicleCategory without the type truck in its second test
getVehicleCategoryBusOnly(type, axleCount) ==
    IF type = "dump_truck" THEN "dump"
    ELSE IF type = "bus" THEN "heavy"
    ELSE IF type = "trailer" THEN (IF axleCount >= 3 THEN "heavy" ELSE "service")
    ELSE IF type = "service_vehicle" \/ type = "van" THEN "service"
    ELSE "light"

getVehicleCategory(type, axleCount) ==
    IF type = "dump_truck" THEN "dump"
    ELSE IF type = "truck" \/ type = "bus" THEN "heavy"
    ELSE IF type = "trailer" THEN (IF axleCount >= 3 THEN "heavy" ELSE "service")
    ELSE IF type = "service_vehicle" \/ type = "van" THEN "service"
    ELSE "light"

(* tyre-positions.ts: getVehicleCategory *)

\* getVehicleCategory with the test axleCount > 3 for a trailer
getVehicleCategoryOffByOne(type, axleCount) ==
    IF type = "dump_truck" THEN "dump"
    ELSE IF type = "truck" \/ type = "bus" THEN "heavy"
    ELSE IF type = "trailer" THEN (IF axleCount > 3 THEN "heavy" ELSE "service")
    ELSE IF type = "service_vehicle" \/ type = "van" THEN "service"
    ELSE "light"

getVehicleCategory_lib(type, axleCount) ==
    IF type = "dump_truck" THEN "dump"
    ELSE IF type = "truck" \/ type = "bus" THEN "heavy"
    ELSE IF type = "trailer" THEN (IF axleCount >= 3 THEN "heavy" ELSE "service")
    ELSE IF type = "service_vehicle" \/ type = "van" THEN "service"
    ELSE "light"

-----------------------------------------------------------------------------
(* vehicle-detail.tsx: generateTyreSlots *)

bodyWidth == 200
leftX == 30
rightX == bodyWidth + 50
dualOffset == 22

\* a TyreSlot object literal; isDual is absent (falsy) unless given
TyreSlot(id, label, x, y, position, isDual) ==
    [id |-> id, label |-> label, x |-> x, y |-> y,
     position |-> position, isDual |-> isDual]

\* the slot pushed last by every branch of the switch
spareSlot(y) ==
    TyreSlot("sp", "Spare", (bodyWidth \div 2) + 40, y, "spare", FALSE)

\* the steer axle pushed first by every branch of the switch
frontSlots(y) ==
    << TyreSlot("fl", "Front Left", leftX, y, "front_left", FALSE),
       TyreSlot("fr", "Front Right", rightX, y, "front_right", FALSE) >>

\* heavyPosition with a key of its own for every axle after the first
heavyPositionPerAxle(a, dualKey, rearKey) ==
    IF a = 1 THEN dualKey ELSE rearKey \o "_" \o ToString(a + 1)

\* position key of a dual slot of heavy axle index a:
\* (a === 1 ? dualKey : rearKey)
heavyPosition(a, dualKey, rearKey) ==
    IF a = 1 THEN dualKey ELSE rearKey

\* heavyAxle with the label test axleCount >= 2
heavyAxleNumbered(a, axleCount, steerY) ==
    LET y == steerY + a * 100
        prefix == IF axleCount >= 2 THEN "Axle " \o ToString(a + 1) ELSE "Rear"
        n == ToString(a + 1)
    IN << TyreSlot("a" \o n \o "lo", prefix \o " Left Outer", leftX - dualOffset, y,
                   heavyPosition(a, "outer_left", "rear_left"), TRUE),
          TyreSlot("a" \o n \o "li", prefix \o " Left Inner", leftX + dualOffset, y,
                   heavyPosition(a, "inner_left", "rear_left"), TRUE),
          TyreSlot("a" \o n \o "ri", prefix \o " Right Inner", rightX - dualOffset, y,
                   heavyPosition(a, "inner_right", "rear_right"), TRUE),
          TyreSlot("a" \o n \o "ro", prefix \o " Right Outer", rightX + dualOffset, y,
                   heavyPosition(a, "outer_right", "rear_right"), TRUE) >>

\* the four pushes of one iteration of the heavy loop
heavyAxle(a, axleCount, steerY) ==
    LET y == steerY + a * 100
        prefix == IF axleCount > 2 THEN "Axle " \o ToString(a + 1) ELSE "Rear"
        n == ToString(a + 1)
    IN << TyreSlot("a" \o n \o "lo", prefix \o " Left Outer", leftX - dualOffset, y,
                   heavyPosition(a, "outer_left", "rear_left"), TRUE),
          TyreSlot("a" \o n \o "li", prefix \o " Left Inner", leftX + dualOffset, y,
                   heavyPosition(a, "inner_left", "rear_left"), TRUE),
          TyreSlot("a" \o n \o "ri", prefix \o " Right Inner", rightX - dualOffset, y,
                   heavyPosition(a, "inner_right", "rear_right"), TRUE),
          TyreSlot("a" \o n \o "ro", prefix \o " Right Outer", rightX + dualOffset, y,
                   heavyPosition(a, "outer_right", "rear_right"), TRUE) >>

\* for (let a = ...; a < axleCount; a++) of the heavy branch
RECURSIVE heavyLoop(_, _, _, _)
heavyLoop(acc, a, axleCount, steerY) ==
    IF a < axleCount
    THEN heavyLoop(acc \o heavyAxle(a, axleCount, steerY), a + 1, axleCount, steerY)
    ELSE acc

\* dumpSecondAxle with the ids of the steer axle
dumpSecondAxleSteerIds(axleCount, steerY) ==
    IF axleCount >= 3
    THEN << TyreSlot("fl", "Axle 2 Left", leftX, steerY + 80, "rear_left", FALSE),
            TyreSlot("fr", "Axle 2 Right", rightX, steerY + 80, "rear_right", FALSE) >>
    ELSE << >>

\* dumpSecondAxle with the test axleCount > 3
dumpSecondAxleOffByOne(axleCount, steerY) ==
    IF axleCount > 3
    THEN << TyreSlot("a2fl", "Axle 2 Left", leftX, steerY + 80, "rear_left", FALSE),
            TyreSlot("a2fr", "Axle 2 Right", rightX, steerY + 80, "rear_right", FALSE) >>
    ELSE << >>

\* the non-dual second axle of a dump truck with three axles or more
dumpSecondAxle(axleCount, steerY) ==
    IF axleCount >= 3
    THEN << TyreSlot("a2fl", "Axle 2 Left", leftX, steerY + 80, "rear_left", FALSE),
            TyreSlot("a2fr", "Axle 2 Right", rightX, steerY + 80, "rear_right", FALSE) >>
    ELSE << >>

\* the four pushes of one iteration of the dump loop
dumpAxle(a, axleCount, steerY) ==
    LET y == steerY + a * 100 + (IF axleCount >= 3 THEN -20 ELSE 0)
        prefix == "Axle " \o ToString(a + 1)
        n == ToString(a + 1)
    IN << TyreSlot("a" \o n \o "lo", prefix \o " Left Outer", leftX - dualOffset, y,
                   "outer_left", TRUE),
          TyreSlot("a" \o n \o "li", prefix \o " Left Inner", leftX + dualOffset, y,
                   "inner_left", TRUE),
          TyreSlot("a" \o n \o "ri", prefix \o " Right Inner", rightX - dualOffset, y,
                   "inner_right", TRUE),
          TyreSlot("a" \o n \o "ro", prefix \o " Right Outer", rightX + dualOffset, y,
                   "outer_right", TRUE) >>

\* for (let a = (axleCount >= 3 ? 2 : 1); a < axleCount; a++) of the dump branch
RECURSIVE dumpLoop(_, _, _, _)
dumpLoop(acc, a, axleCount, steerY) ==
    IF a < axleCount
    THEN dumpLoop(acc \o dumpAxle(a, axleCount, steerY), a + 1, axleCount, steerY)
    ELSE acc

\* case "light"
lightSlots ==
    frontSlots(80)
    \o << TyreSlot("rl", "Rear Left", leftX, 280, "rear_left", FALSE),
          TyreSlot("rr", "Rear Right", rightX, 280, "rear_right", FALSE) >>
    \o << spareSlot(350) >>

\* case "service" with the rear axle of case "light"
serviceSlotsSingleRear ==
    frontSlots(80)
    \o << TyreSlot("rl", "Rear Left", leftX, 280, "rear_left", FALSE),
          TyreSlot("rr", "Rear Right", rightX, 280, "rear_right", FALSE) >>
    \o << spareSlot(350) >>

\* case "service"
serviceSlots ==
    frontSlots(80)
    \o << TyreSlot("rlo", "Rear Left Outer", leftX - dualOffset, 280, "outer_left", TRUE),
          TyreSlot("rli", "Rear Left Inner", leftX + dualOffset, 280, "inner_left", TRUE),
          TyreSlot("rri", "Rear Right Inner", rightX - dualOffset, 280, "inner_right", TRUE),
          TyreSlot("rro", "Rear Right Outer", rightX + dualOffset, 280, "outer_right", TRUE) >>
    \o << spareSlot(350) >>

\* case "heavy" with the loop started at a = 0
heavySlotsFromZero(axleCount) ==
    heavyLoop(frontSlots(80), 0, axleCount, 80)
    \o << spareSlot(80 + axleCount * 100) >>

\* case "heavy" without its last push
heavySlotsNoSpare(axleCount) ==
    heavyLoop(frontSlots(80), 1, axleCount, 80)

\* case "heavy"
heavySlots(axleCount) ==
    heavyLoop(frontSlots(80), 1, axleCount, 80)
    \o << spareSlot(80 + axleCount * 100) >>

\* case "dump"
dumpSlots(axleCount) ==
    dumpLoop(frontSlots(80) \o dumpSecondAxle(axleCount, 80),
             IF axleCount >= 3 THEN 2 ELSE 1, axleCount, 80)
    \o << spareSlot(80 + axleCount * 100 + 10) >>

generateTyreSlots(cat, axleCount) ==
    CASE cat = "light" -> lightSlots
      [] cat = "service" -> serviceSlots
      [] cat = "heavy" -> heavySlots(axleCount)
      [] cat = "dump" -> dumpSlots(axleCount)
      [] OTHER -> << >>

-----------------------------------------------------------------------------
(* tyre-positions.ts: getPositionOptionsForVehicle *)

PositionOption(value, label) == [value |-> value, label |-> label]

\* the two options every non-fixed branch starts from
frontOptions ==
    << PositionOption("front_left", "Front Left"),
       PositionOption("front_right", "Front Right") >>

\* options.push(...) of one iteration of the heavy and of the dump loop
dualOptions(prefix) ==
    << PositionOption("outer_left", prefix \o " Left Outer"),
       PositionOption("inner_left", prefix \o " Left Inner"),
       PositionOption("inner_right", prefix \o " Right Inner"),
       PositionOption("outer_right", prefix \o " Right Outer") >>

RECURSIVE heavyOptionsLoop(_, _, _)
heavyOptionsLoop(options, a, axleCount) ==
    IF a < axleCount
    THEN heavyOptionsLoop(
             options \o dualOptions(IF axleCount > 2 THEN "Axle " \o ToString(a + 1)
                                                     ELSE "Rear"),
             a + 1, axleCount)
    ELSE options

RECURSIVE dumpOptionsLoop(_, _, _)
dumpOptionsLoop(options, a, axleCount) ==
    IF a < axleCount
    THEN dumpOptionsLoop(options \o dualOptions("Axle " \o ToString(a + 1)),
                         a + 1, axleCount)
    ELSE options

\* the body of getPositionOptionsForVehicle after its category is derived
positionOptionsOf(cat, axleCount) ==
    CASE cat = "light" ->
           << PositionOption("front_left", "Front Left"),
              PositionOption("front_right", "Front Right"),
              PositionOption("rear_left", "Rear Left"),
              PositionOption("rear_right", "Rear Right"),
              PositionOption("spare", "Spare") >>
      [] cat = "service" ->
           << PositionOption("front_left", "Front Left"),
              PositionOption("front_right", "Front Right"),
              PositionOption("outer_left", "Rear Left Outer"),
              PositionOption("inner_left", "Rear Left Inner"),
              PositionOption("inner_right", "Rear Right Inner"),
              PositionOption("outer_right", "Rear Right Outer"),
              PositionOption("spare", "Spare") >>
      [] cat = "heavy" ->
           heavyOptionsLoop(frontOptions, 1, axleCount)
           \o << PositionOption("spare", "Spare") >>
      [] cat = "dump" ->
           dumpOptionsLoop(
               frontOptions
               \o (IF axleCount >= 3
                   THEN << PositionOption("rear_left", "Axle 2 Left"),
                           PositionOption("rear_right", "Axle 2 Right") >>
                   ELSE << >>),
               IF axleCount >= 3 THEN 2 ELSE 1, axleCount)
           \o << PositionOption("spare", "Spare") >>
      [] OTHER -> << >>

getPositionOptionsForVehicle(vehicleType, axleCount) ==
    positionOptionsOf(getVehicleCategory_lib(vehicleType, axleCount), axleCount)

-----------------------------------------------------------------------------
(* vehicle-detail.tsx: matchTyresToSlots *)

\* a Tyre row, as far as the matcher reads it
Tyre(id, position) == [id |-> id, position |-> position]

\* new Map()
EmptyMap == [k \in {} |-> None]

\* Map.prototype.set
MapSet(m, k, v) == [x \in (DOMAIN m) \cup {k} |-> IF x = k THEN v ELSE m[x]]

\* Map.prototype.get(k) === null
MapGetIsNull(m, k) == k \in DOMAIN m /\ m[k] = None

\* Map.prototype.has on positionGroups, kept as a list of [position, slots]
\* in insertion order
groupsHas(groups, position) ==
    \E g \in 1..Len(groups) : groups[g].position = position

\* slots.forEach((slot) => { if (!has) set(position, []); get(position).push(slot) })
RECURSIVE groupSlots(_, _, _)
groupSlots(groups, slotList, i) ==
    IF i > Len(slotList) THEN groups
    ELSE LET slot == slotList[i]
             withKey == IF ~groupsHas(groups, slot.position)
                        THEN Append(groups, [position |-> slot.position, slots |-> << >>])
                        ELSE groups
             pushed == [g \in 1..Len(withKey) |->
                          IF withKey[g].position = slot.position
                          THEN [withKey[g] EXCEPT !.slots = Append(@, slot)]
                          ELSE withKey[g]]
         IN groupSlots(pushed, slotList, i + 1)

\* matchingTyresOf with a tyre of no position taken for any position
matchingTyresAcceptsNull(tyres, position, used) ==
    SelectSeq(tyres, LAMBDA t : (t.position = position \/ t.position = NULL)
                                /\ t.id \notin used)

\* tyres.filter((t) => t.position === position && !usedTyres.has(t.id))
matchingTyresOf(tyres, position, used) ==
    SelectSeq(tyres, LAMBDA t : t.position = position /\ t.id \notin used)

\* assignSlot without usedTyres.add(...)
assignSlotForgetsUsed(st, slot, matchingTyres, idx) ==
    IF idx <= Len(matchingTyres)
    THEN [result |-> MapSet(st.result, slot.id, Some(matchingTyres[idx])),
          usedTyres |-> st.usedTyres]
    ELSE [result |-> MapSet(st.result, slot.id, None),
          usedTyres |-> st.usedTyres]

\* assignSlot without its else branch
assignSlotLeavesUnset(st, slot, matchingTyres, idx) ==
    IF idx <= Len(matchingTyres)
    THEN [result |-> MapSet(st.result, slot.id, Some(matchingTyres[idx])),
          usedTyres |-> st.usedTyres \cup {matchingTyres[idx].id}]
    ELSE st

\* assignSlot reading matchingTyres[0] for every slot of the group
assignSlotAlwaysFirst(st, slot, matchingTyres, idx) ==
    IF idx <= Len(matchingTyres)
    THEN [result |-> MapSet(st.result, slot.id, Some(matchingTyres[1])),
          usedTyres |-> st.usedTyres \cup {matchingTyres[1].id}]
    ELSE [result |-> MapSet(st.result, slot.id, None),
          usedTyres |-> st.usedTyres]

\* the callback of groupSlots.forEach((slot, idx) => ...); idx counts from 1
\* here, from 0 in the source
assignSlot(st, slot, matchingTyres, idx) ==
    IF idx <= Len(matchingTyres)
    THEN [result |-> MapSet(st.result, slot.id, Some(matchingTyres[idx])),
          usedTyres |-> st.usedTyres \cup {matchingTyres[idx].id}]
    ELSE [result |-> MapSet(st.result, slot.id, None),
          usedTyres |-> st.usedTyres]

RECURSIVE assignGroup(_, _, _, _)
assignGroup(st, slotsOfGroup, matchingTyres, idx) ==
    IF idx > Len(slotsOfGroup) THEN st
    ELSE assignGroup(assignSlot(st, slotsOfGroup[idx], matchingTyres, idx),
                     slotsOfGroup, matchingTyres, idx + 1)

\* positionGroups.forEach((groupSlots, position) => ...)
RECURSIVE directLoop(_, _, _, _)
directLoop(st, groups, tyres, g) ==
    IF g > Len(groups) THEN st
    ELSE directLoop(
             assignGroup(st, groups[g].slots,
                         matchingTyresOf(tyres, groups[g].position, st.usedTyres), 1),
             groups, tyres, g + 1)

\* lines 410-431: the direct pass over the position groups
directPass(slotList, tyres) ==
    directLoop([result |-> EmptyMap, usedTyres |-> {}],
               groupSlots(<< >>, slotList, 1), tyres, 1)

\* tyres.filter((t) => !usedTyres.has(t.id))
unmatchedTyresOf(tyres, used) ==
    SelectSeq(tyres, LAMBDA t : t.id \notin used)

\* emptySlotsOf without the test for the spare
emptySlotsWithSpare(slotList, result) ==
    SelectSeq(slotList, LAMBDA s : MapGetIsNull(result, s.id))

\* emptySlotsOf without the test for null
emptySlotsAnyNonSpare(slotList, result) ==
    SelectSeq(slotList, LAMBDA s : s.position # "spare")

\* slots.filter((s) => result.get(s.id) === null && s.position !== "spare")
emptySlotsOf(slotList, result) ==
    SelectSeq(slotList, LAMBDA s : MapGetIsNull(result, s.id) /\ s.position # "spare")

\* unmatchedTyres.forEach((tyre, idx) => ...); idx counts from 1 here
RECURSIVE overflowLoop(_, _, _, _)
overflowLoop(st, unmatchedTyres, emptySlots, idx) ==
    IF idx > Len(unmatchedTyres) THEN st
    ELSE overflowLoop(
             IF idx <= Len(emptySlots)
             THEN [result |-> MapSet(st.result, emptySlots[idx].id,
                                     Some(unmatchedTyres[idx])),
                   usedTyres |-> st.usedTyres \cup {unmatchedTyres[idx].id}]
             ELSE st,
             unmatchedTyres, emptySlots, idx + 1)

\* lines 433-440: the overflow step
overflowPass(st, slotList, tyres) ==
    overflowLoop(st, unmatchedTyresOf(tyres, st.usedTyres),
                 emptySlotsOf(slotList, st.result), 1)

matchTyresToSlots(slotList, tyres) ==
    overflowPass(directPass(slotList, tyres), slotList, tyres).result

-----------------------------------------------------------------------------
(* vehicle-detail.tsx: the "Tyres Fitted" tile *)

\* vehicleTyres.filter((t) => t.position && t.position !== "spare").length
fittedCount(tyres) ==
    Len(SelectSeq(tyres, LAMBDA t : t.position # NULL /\ t.position # "spare"))

\* slots.filter((s) => s.position !== "spare").length
totalSlots(slotList) ==
    Len(SelectSeq(slotList, LAMBDA s : s.position # "spare"))

-----------------------------------------------------------------------------

(* The inputs *)

Vehicles(types, maxAxles) ==
    [type : types, axleCount : MinAxleCount..maxAxles]

\* the positions of the tyres handed to the matcher: null, keys held by one
\* slot, keys held by several slots of a vehicle with many axles, keys some
\* vehicles have no slot for, and spare
TyrePositions ==
    {NULL, "front_left", "front_right", "rear_left", "outer_left", "inner_left", "spare"}

\* tyre ids are primary keys: the rows of one list have distinct ids
TyreId(i) == "t" \o ToString(i)

\* the lists of n tyres, every position taken from TyrePositions
TyreLists(n) ==
    {[i \in 1..n |-> Tyre(TyreId(i), ps[i])] : ps \in [1..n -> TyrePositions]}

\* one vehicle type for each path through getVehicleCategory
MatchedVehicleTypes ==
    {"light_vehicle", "service_vehicle", "truck", "dump_truck", "trailer"}

-----------------------------------------------------------------------------
(* The vehicle detail page and the tyre form *)

\* the keys of the ten slots drawn for a truck of three axles, spare left
\* out, in slot order: the positions of a full set of fitted tyres
TruckKeys ==
    <<"front_left", "front_right", "outer_left", "inner_left", "inner_right",
      "outer_right", "rear_left", "rear_left", "rear_right", "rear_right">>

\* the rows of a full set in the orders the query may return them: slot order
\* with two rows exchanged, and slot order started from any row
TruckTyreOrders ==
    {[i \in 1..Len(TruckKeys) |->
         IF i = a THEN TruckKeys[b] ELSE IF i = b THEN TruckKeys[a] ELSE TruckKeys[i]] :
       a \in 1..Len(TruckKeys), b \in 1..Len(TruckKeys)}
    \cup
    {[i \in 1..Len(TruckKeys) |-> TruckKeys[((i + r - 1) % Len(TruckKeys)) + 1]] :
       r \in 1..Len(TruckKeys)}

Blank ==
    /\ category = ""
    /\ slots = << >>
    /\ tyreMap = EmptyMap
    /\ usedTyres = {}
    /\ positionOptions = << >>
    /\ formCategory = ""
    /\ pcPage = "loaded"
    /\ pcForm = "idle"

\* no request is being handled
NoRequest == [id |-> "", route |-> "", session |-> "", fleetId |-> "", body |-> << >>]

\* no request has been answered since the last one came in
NoResponse == [status |-> 0, errors |-> {}]

\* the connections on which requests are handled side by side
Conns == {"c1", "c2"}

\* a handler on a connection: the request it handles, where it stands (idle
\* when it has answered), and the status it answered the last request with
Handler(req, pc, status) == [status |-> status, req |-> req, pc |-> pc]

\* no handler is running
NoHandlers == [c \in Conns |-> Handler(NoRequest, "idle", 0)]

\* the server as the pages see it: nothing of it moves while a page renders
ServerIdle ==
    /\ fleets = {}
    /\ fleetMembers = {}
    /\ vehicles = {}
    /\ tyreRows = {}
    /\ stockItems = {}
    /\ alerts = {}
    /\ nextId = 0
    /\ request = NoRequest
    /\ response = NoResponse
    /\ inflight = NoHandlers

\* a vehicle of any type and axle count is on screen
Init ==
    /\ vehicle \in Vehicles(VehicleTypes, MaxAxleCount)
    /\ vehicleTyres = << >>
    /\ Blank
    /\ ServerIdle

\* a vehicle and its tyres are on screen
InitMatch ==
    /\ vehicle \in Vehicles(MatchedVehicleTypes, MaxMatchAxles)
    /\ vehicleTyres \in UNION {TyreLists(n) : n \in 0..MaxTyres}
    /\ Blank
    /\ ServerIdle

\* VehicleDetailPage, lines 481-482
RenderDiagram ==
    /\ pcPage = "loaded"
    /\ category' = getVehicleCategory(vehicle.type, vehicle.axleCount)
    /\ slots' = generateTyreSlots(category', vehicle.axleCount)
    /\ pcPage' = "rendered"
    /\ UNCHANGED <<vehicle, vehicleTyres, tyreMap, usedTyres,
                   positionOptions, formCategory, pcForm>>
    /\ UNCHANGED serverVars

\* VehicleDetailPage, line 483: matchTyresToSlots up to the end of the direct pass
MatchDirect ==
    /\ pcPage = "rendered"
    /\ LET st == directPass(slots, vehicleTyres)
       IN /\ tyreMap' = st.result
          /\ usedTyres' = st.usedTyres
    /\ pcPage' = "direct"
    /\ UNCHANGED <<vehicle, vehicleTyres, category, slots,
                   positionOptions, formCategory, pcForm>>
    /\ UNCHANGED serverVars

\* VehicleDetailPage, line 483: the overflow step and the return
MatchOverflow ==
    /\ pcPage = "direct"
    /\ LET st == overflowPass([result |-> tyreMap, usedTyres |-> usedTyres],
                              slots, vehicleTyres)
       IN /\ tyreMap' = st.result
          /\ usedTyres' = st.usedTyres
    /\ pcPage' = "done"
    /\ UNCHANGED <<vehicle, vehicleTyres, category, slots,
                   positionOptions, formCategory, pcForm>>
    /\ UNCHANGED serverVars

\* TyreFormFields: the options of the position dropdown for the chosen vehicle
RenderPositionOptions ==
    /\ pcForm = "idle"
    /\ formCategory' = getVehicleCategory_lib(vehicle.type, vehicle.axleCount)
    /\ positionOptions' = getPositionOptionsForVehicle(vehicle.type, vehicle.axleCount)
    /\ pcForm' = "options"
    /\ UNCHANGED <<vehicle, vehicleTyres, category, slots, tyreMap, usedTyres, pcPage>>
    /\ UNCHANGED serverVars

Next == RenderDiagram \/ RenderPositionOptions

NextMatch == RenderDiagram \/ MatchDirect \/ MatchOverflow

Spec == Init /\ [][Next]_vars

SpecMatch == InitMatch /\ [][NextMatch]_vars

\* the page of a truck of three axles with a full set of fitted tyres
InitTruck ==
    /\ vehicle = [type |-> "truck", axleCount |-> 3]
    /\ vehicleTyres \in {[i \in 1..Len(ps) |-> Tyre(TyreId(i), ps[i])] : ps \in TruckTyreOrders}
    /\ Blank
    /\ ServerIdle

SpecTruck == InitTruck /\ [][NextMatch]_vars

-----------------------------------------------------------------------------
(* The tyre form and the vehicle detail page, one after the other *)

\* how many tyres are given a position of the vehicle through the form
MaxChosen == 2

\* the vehicle is chosen in the tyre form; its detail page is not open
InitRoundTrip ==
    /\ vehicle \in Vehicles(VehicleTypes, MaxMatchAxles)
    /\ vehicleTyres = << >>
    /\ category = ""
    /\ slots = << >>
    /\ tyreMap = EmptyMap
    /\ usedTyres = {}
    /\ positionOptions = << >>
    /\ formCategory = ""
    /\ pcPage = "closed"
    /\ pcForm = "idle"
    /\ ServerIdle

\* the option indexes of the set chosen, in option order
RECURSIVE InOrder(_)
InOrder(chosen) ==
    IF chosen = {} THEN << >>
    ELSE LET k == CHOOSE x \in chosen : \A y \in chosen : x <= y
         IN <<k>> \o InOrder(chosen \ {k})

\* TyreFormFields: <Select> of positionOptions, value = opt.value: each option
\* of the set chosen is picked for one tyre, which stores the option's value
\* as its position (the tyre of option k has the id TyreId(k)); the detail
\* page then loads the vehicle with these tyres, in option order
SaveTyres ==
    /\ pcForm = "options"
    /\ pcPage = "closed"
    /\ \E chosen \in SUBSET (1..Len(positionOptions)) :
          /\ Cardinality(chosen) <= MaxChosen
          /\ vehicleTyres' = [i \in 1..Cardinality(chosen) |->
                                 Tyre(TyreId(InOrder(chosen)[i]),
                                      positionOptions[InOrder(chosen)[i]].value)]
    /\ pcForm' = "saved"
    /\ pcPage' = "loaded"
    /\ UNCHANGED <<vehicle, category, slots, tyreMap, usedTyres,
                   positionOptions, formCategory>>
    /\ UNCHANGED serverVars

NextRoundTrip ==
    \/ RenderPositionOptions
    \/ SaveTyres
    \/ RenderDiagram
    \/ MatchDirect
    \/ MatchOverflow

SpecRoundTrip == InitRoundTrip /\ [][NextRoundTrip]_vars

-----------------------------------------------------------------------------

(* server: users, sessions and ids *)

\* the registered users (rows of the table users); the e-mail address of the
\* user u is emailOf(u)
Users == {"u1", "u2", "u3"}

emailOf(u) == u \o "@fleet.test"

\* req.session.userId of a request that carries no session
NoSession == "NoSession"

\* the rows the database can still give an id to
MaxIds == 2

\* gen_random_uuid(): the n-th id handed out
NewId(n) == "id" \o ToString(n)

\* a request: route, req.session.userId, req.params.fleetId (or :id), the
\* second path parameter, req.body
Request(route, session, fleetId, id, body) ==
    [id |-> id, route |-> route, session |-> session, fleetId |-> fleetId, body |-> body]

-----------------------------------------------------------------------------
(* routes.ts: the zod schemas *)

\* a JSON field that is undefined, null, an integer n, or the number n + 1/2
Absent == [n |-> 0, tag |-> "absent"]

Null == [n |-> 0, tag |-> "null"]

Num(n) == [n |-> n, tag |-> "number"]

Half(n) == [n |-> n, tag |-> "half"]

\* a string field that is undefined
ABSENT == "ABSENT"

MinYear == 1990

MaxYear == 2030

DefaultAxleCount == 2

\* numberInRange with the upper bound one too high
numberInRangeLoose(v, lo, hi) ==
    \/ v.tag = "number" /\ lo <= v.n /\ v.n <= hi + 1
    \/ v.tag = "half" /\ lo <= v.n /\ v.n < hi

\* z.number().min(lo).max(hi)
numberInRange(v, lo, hi) ==
    \/ v.tag = "number" /\ lo <= v.n /\ v.n <= hi
    \/ v.tag = "half" /\ lo <= v.n /\ v.n < hi

\* year: z.number().min(1990).max(2030).nullable().optional()
createVehicleSchema_year(v) ==
    v.tag \in {"absent", "null"} \/ numberInRange(v, MinYear, MaxYear)

\* axleCount: z.number().min(1).max(10).default(2)
createVehicleSchema_axleCount(v) ==
    v.tag = "absent" \/ numberInRange(v, MinAxleCount, MaxAxleCount)

\* createVehicleSchema.safeParse(body).success, for the fields year and
\* axleCount of a body whose other fields are valid
createVehicleSchema_success(body) ==
    createVehicleSchema_year(body.year) /\ createVehicleSchema_axleCount(body.axleCount)

\* error.errors of createVehicleSchema: the paths of the fields refused
createVehicleSchema_errors(body) ==
    {f \in {"year"} : ~createVehicleSchema_year(body.year)}
    \cup {f \in {"axleCount"} : ~createVehicleSchema_axleCount(body.axleCount)}

\* createVehicleSchema.parse(body): the default of axleCount filled in
createVehicleSchema_parse(body) ==
    [axleCount |-> IF body.axleCount.tag = "absent" THEN Num(DefaultAxleCount)
                   ELSE body.axleCount,
     year |-> body.year]

\* createVehicleSchema.partial().parse(body): every field optional; whether
\* the default of an absent axleCount is still filled in depends on the
\* release of zod the build resolves, so both are taken
createVehicleSchema_partial(body, fillsDefault) ==
    [axleCount |-> IF body.axleCount.tag = "absent" /\ fillsDefault
                   THEN Num(DefaultAxleCount) ELSE body.axleCount,
     year |-> body.year]

\* createTyreSchema.safeParse(body).success, for the fields position and
\* vehicleId of a body whose other fields are valid
createTyreSchema_success(body) ==
    body.position = ABSENT \/ createTyreSchemaPosition(body.position)

createTyreSchema_errors(body) ==
    {f \in {"position"} : ~createTyreSchema_success(body)}

\* addMemberSchema: email: z.string().email(), role: z.enum(["admin", "member"]).default("member")
addMemberSchema_success(body) ==
    /\ body.email \in {emailOf(u) : u \in Users} \cup {"nobody@fleet.test"}
    /\ body.role \in {ABSENT, "admin", "member"}

addMemberSchema_errors(body) ==
    {f \in {"email"} : body.email \notin {emailOf(u) : u \in Users} \cup {"nobody@fleet.test"}}
    \cup {f \in {"role"} : body.role \notin {ABSENT, "admin", "member"}}

addMemberSchema_parse(body) ==
    [email |-> body.email, role |-> IF body.role = ABSENT THEN "member" ELSE body.role]

-----------------------------------------------------------------------------
(* auth.ts and storage.ts *)

\* isAuthenticated that lets every request through
isAuthenticatedAlways(req) == TRUE

\* isAuthenticated: if (!req.session.userId) return res.status(401)
isAuthenticated(req) == req.session # NoSession

isFleetMember(fleetId, userId) ==
    \E m \in fleetMembers : m.fleetId = fleetId /\ m.userId = userId

\* getFleet, getVehicle, getTyre: the rows with that id (none or one)
getFleet(id) == {f \in fleets : f.id = id}

getVehicle(id) == {v \in vehicles : v.id = id}

getTyre(id) == {t \in tyreRows : t.id = id}

getUserByEmail(email) == {u \in Users : emailOf(u) = email}

\* getVehicleWithTyres(vehicleId).tyres:
\* db.select().from(tyres).where(eq(tyres.vehicleId, vehicleId))
getVehicleWithTyres(vehicleId) == {t \in tyreRows : t.vehicleId = vehicleId}

\* the columns year and axle_count are integer: a value that is not whole
\* makes the statement fail
integerColumns(data) == data.axleCount.tag # "half" /\ data.year.tag # "half"

\* the row createVehicle inserts: year is null when not given
VehicleRow(id, fleetId, data) ==
    [axleCount |-> data.axleCount.n, id |-> id, fleetId |-> fleetId,
     year |-> IF data.year.tag = "absent" THEN Null ELSE data.year]

\* updateVehicle: db.update(vehicles).set(data).where(eq(vehicles.id, id)),
\* as updateTyre; the fields not in data keep their value
updateVehicle(row, data) ==
    [row EXCEPT !.axleCount = IF data.axleCount.tag = "absent" THEN @ ELSE data.axleCount.n,
                !.year = IF data.year.tag = "absent" THEN @ ELSE data.year]

\* the row createTyre inserts: position and vehicleId are null when not given
TyreRow(id, fleetId, data) ==
    [id |-> id,
     position |-> IF data.position = ABSENT THEN NULL ELSE data.position,
     fleetId |-> fleetId,
     vehicleId |-> IF data.vehicleId = ABSENT THEN NULL ELSE data.vehicleId]

updateTyre(row, data) ==
    [row EXCEPT !.vehicleId = IF data.vehicleId = ABSENT THEN @ ELSE data.vehicleId,
                !.position = IF data.position = ABSENT THEN @ ELSE data.position]

\* createVehiclesBatch, createTyresBatch: one insert of all the valid items,
\* the k-th with the k-th new id
createVehiclesBatch(items, fleetId) ==
    {VehicleRow(NewId(nextId + k), fleetId, items[k]) : k \in 1..Len(items)}

createTyresBatch(items, fleetId) ==
    {TyreRow(NewId(nextId + k), fleetId, items[k]) : k \in 1..Len(items)}

\* res.status(status).json(...) or res.json(...): the request is over
Answer(req, status) ==
    /\ request' = NoRequest
    /\ response' = [status |-> status, errors |-> {}]
    /\ UNCHANGED inflight

\* an answer that leaves every table as it was
Refuse(req, status) == Answer(req, status) /\ UNCHANGED storeVars

\* catch (error) of a ZodError:
\* res.status(400).json({ message: "Invalid input", errors: error.errors })
Invalid(req, errors) ==
    /\ request' = NoRequest
    /\ response' = [status |-> 400, errors |-> errors]
    /\ UNCHANGED storeVars
    /\ UNCHANGED inflight

-----------------------------------------------------------------------------
(* routes.ts: vehicles *)

\* the GET routes of a fleet that list rows: 401, 403 or the rows
ListRoute(req) ==
    /\ UNCHANGED pageVars
    /\ IF ~isAuthenticated(req) THEN Refuse(req, 401)
       ELSE IF ~isFleetMember(req.fleetId, req.session) THEN Refuse(req, 403)
       ELSE Refuse(req, 200)

GetVehicles(req) ==
    /\ req.route = "GET /api/fleets/:fleetId/vehicles"
    /\ ListRoute(req)

PostVehicle(req) ==
    /\ req.route = "POST /api/fleets/:fleetId/vehicles"
    /\ UNCHANGED pageVars
    /\ IF ~isAuthenticated(req) THEN Refuse(req, 401)
       ELSE IF ~isFleetMember(req.fleetId, req.session) THEN Refuse(req, 403)
       ELSE IF ~createVehicleSchema_success(req.body)
            THEN Invalid(req, createVehicleSchema_errors(req.body))
       ELSE IF ~integerColumns(createVehicleSchema_parse(req.body)) THEN Refuse(req, 500)
       ELSE /\ nextId' = nextId + 1
            /\ vehicles' = vehicles \cup
                  {VehicleRow(NewId(nextId + 1), req.fleetId,
                              createVehicleSchema_parse(req.body))}
            /\ Answer(req, 200)
            /\ UNCHANGED <<fleets, fleetMembers, tyreRows, stockItems, alerts>>

PostVehiclesBatch(req) ==
    /\ req.route = "POST /api/fleets/:fleetId/vehicles/batch"
    /\ UNCHANGED pageVars
    /\ IF ~isAuthenticated(req) THEN Refuse(req, 401)
       ELSE IF ~isFleetMember(req.fleetId, req.session) THEN Refuse(req, 403)
       ELSE IF Len(req.body) = 0 THEN Refuse(req, 400)
       ELSE LET validItems ==
                    [k \in 1..Len(SelectSeq(req.body, createVehicleSchema_success)) |->
                        createVehicleSchema_parse(
                            SelectSeq(req.body, createVehicleSchema_success)[k])]
            IN IF Len(validItems) = 0
               THEN Invalid(req, UNION {createVehicleSchema_errors(req.body[k]) :
                                           k \in 1..Len(req.body)})
               ELSE IF \E k \in 1..Len(validItems) : ~integerColumns(validItems[k])
                    THEN Refuse(req, 500)
               ELSE /\ nextId' = nextId + Len(validItems)
                    /\ vehicles' = vehicles \cup createVehiclesBatch(validItems, req.fleetId)
                    /\ Answer(req, 200)
                    /\ UNCHANGED <<fleets, fleetMembers, tyreRows, stockItems, alerts>>

GetVehicle(req) ==
    /\ req.route = "GET /api/fleets/:fleetId/vehicles/:vehicleId"
    /\ UNCHANGED pageVars
    /\ IF ~isAuthenticated(req) THEN Refuse(req, 401)
       ELSE IF ~isFleetMember(req.fleetId, req.session) THEN Refuse(req, 403)
       ELSE IF getVehicle(req.id) = {} THEN Refuse(req, 404)
       ELSE IF \E v \in getVehicle(req.id) : v.fleetId # req.fleetId THEN Refuse(req, 403)
       ELSE Refuse(req, 200)

\* both readings of createVehicleSchema.partial() on an absent axleCount
PartialFillsDefault == BOOLEAN

PatchVehicle(req) ==
    /\ req.route = "PATCH /api/fleets/:fleetId/vehicles/:vehicleId"
    /\ UNCHANGED pageVars
    /\ IF ~isAuthenticated(req) THEN Refuse(req, 401)
       ELSE IF ~isFleetMember(req.fleetId, req.session) THEN Refuse(req, 403)
       ELSE IF \A v \in getVehicle(req.id) : v.fleetId # req.fleetId THEN Refuse(req, 404)
       ELSE IF ~createVehicleSchema_success(req.body)
            THEN Invalid(req, createVehicleSchema_errors(req.body))
       ELSE \E fillsDefault \in PartialFillsDefault :
              LET parsed == createVehicleSchema_partial(req.body, fillsDefault)
              IN IF ~integerColumns(parsed) THEN Refuse(req, 500)
                 ELSE IF parsed.axleCount.tag = "absent" /\ parsed.year.tag = "absent"
                      THEN \* the other fields are set, or there is none to set
                           \E status \in {200, 500} : Refuse(req, status)
                 ELSE /\ vehicles' = {IF v.id = req.id THEN updateVehicle(v, parsed) ELSE v :
                                         v \in vehicles}
                      /\ Answer(req, 200)
                      /\ UNCHANGED <<fleets, fleetMembers, tyreRows, stockItems, alerts, nextId>>

\* deleteVehicle(req.params.vehicleId): the row with that id, of any fleet
DeleteVehicle(req) ==
    /\ req.route = "DELETE /api/fleets/:fleetId/vehicles/:vehicleId"
    /\ UNCHANGED pageVars
    /\ IF ~isAuthenticated(req) THEN Refuse(req, 401)
       ELSE IF ~isFleetMember(req.fleetId, req.session) THEN Refuse(req, 403)
       ELSE /\ vehicles' = {v \in vehicles : v.id # req.id}
            /\ Answer(req, 200)
            /\ UNCHANGED <<fleets, fleetMembers, tyreRows, stockItems, alerts, nextId>>

-----------------------------------------------------------------------------
(* routes.ts: tyres *)

GetTyres(req) ==
    /\ req.route = "GET /api/fleets/:fleetId/tyres"
    /\ ListRoute(req)

PostTyresBatch(req) ==
    /\ req.route = "POST /api/fleets/:fleetId/tyres/batch"
    /\ UNCHANGED pageVars
    /\ IF ~isAuthenticated(req) THEN Refuse(req, 401)
       ELSE IF ~isFleetMember(req.fleetId, req.session) THEN Refuse(req, 403)
       ELSE IF Len(req.body) = 0 THEN Refuse(req, 400)
       ELSE LET validItems == SelectSeq(req.body, createTyreSchema_success)
            IN IF Len(validItems) = 0
               THEN Invalid(req, UNION {createTyreSchema_errors(req.body[k]) :
                                           k \in 1..Len(req.body)})
               ELSE /\ nextId' = nextId + Len(validItems)
                    /\ tyreRows' = tyreRows \cup createTyresBatch(validItems, req.fleetId)
                    /\ Answer(req, 200)
                    /\ UNCHANGED <<fleets, fleetMembers, vehicles, stockItems, alerts>>

PostTyre(req) ==
    /\ req.route = "POST /api/fleets/:fleetId/tyres"
    /\ UNCHANGED pageVars
    /\ IF ~isAuthenticated(req) THEN Refuse(req, 401)
       ELSE IF ~isFleetMember(req.fleetId, req.session) THEN Refuse(req, 403)
       ELSE IF ~createTyreSchema_success(req.body)
            THEN Invalid(req, createTyreSchema_errors(req.body))
       ELSE /\ nextId' = nextId + 1
            /\ tyreRows' = tyreRows \cup {TyreRow(NewId(nextId + 1), req.fleetId, req.body)}
            /\ Answer(req, 200)
            /\ UNCHANGED <<fleets, fleetMembers, vehicles, stockItems, alerts>>

PatchTyre(req) ==
    /\ req.route = "PATCH /api/fleets/:fleetId/tyres/:tyreId"
    /\ UNCHANGED pageVars
    /\ IF ~isAuthenticated(req) THEN Refuse(req, 401)
       ELSE IF ~isFleetMember(req.fleetId, req.session) THEN Refuse(req, 403)
       ELSE IF \A t \in getTyre(req.id) : t.fleetId # req.fleetId THEN Refuse(req, 404)
       ELSE IF ~createTyreSchema_success(req.body)
            THEN Invalid(req, createTyreSchema_errors(req.body))
       ELSE IF req.body.position = ABSENT /\ req.body.vehicleId = ABSENT
            THEN \* the other fields are set, or there is none to set
                 \E status \in {200, 500} : Refuse(req, status)
       ELSE /\ tyreRows' = {IF t.id = req.id THEN updateTyre(t, req.body) ELSE t :
                               t \in tyreRows}
            /\ Answer(req, 200)
            /\ UNCHANGED <<fleets, fleetMembers, vehicles, stockItems, alerts, nextId>>

DeleteTyre(req) ==
    /\ req.route = "DELETE /api/fleets/:fleetId/tyres/:tyreId"
    /\ UNCHANGED pageVars
    /\ IF ~isAuthenticated(req) THEN Refuse(req, 401)
       ELSE IF ~isFleetMember(req.fleetId, req.session) THEN Refuse(req, 403)
       ELSE IF \A t \in getTyre(req.id) : t.fleetId # req.fleetId THEN Refuse(req, 404)
       ELSE /\ tyreRows' = {t \in tyreRows : t.id # req.id}
            /\ Answer(req, 200)
            /\ UNCHANGED <<fleets, fleetMembers, vehicles, stockItems, alerts, nextId>>

-----------------------------------------------------------------------------
(* routes.ts: stock and alerts *)

GetStock(req) ==
    /\ req.route = "GET /api/fleets/:fleetId/stock"
    /\ ListRoute(req)

\* createStockSchema.parse(req.body): the body is valid or it is not
PostStock(req) ==
    /\ req.route = "POST /api/fleets/:fleetId/stock"
    /\ UNCHANGED pageVars
    /\ IF ~isAuthenticated(req) THEN Refuse(req, 401)
       ELSE IF ~isFleetMember(req.fleetId, req.session) THEN Refuse(req, 403)
       ELSE IF ~req.body.valid THEN Invalid(req, {"body"})
       ELSE /\ nextId' = nextId + 1
            /\ stockItems' = stockItems \cup {[id |-> NewId(nextId + 1), fleetId |-> req.fleetId]}
            /\ Answer(req, 200)
            /\ UNCHANGED <<fleets, fleetMembers, vehicles, tyreRows, alerts>>

\* deleteStockItem(req.params.stockId): the row with that id, of any fleet
DeleteStock(req) ==
    /\ req.route = "DELETE /api/fleets/:fleetId/stock/:stockId"
    /\ UNCHANGED pageVars
    /\ IF ~isAuthenticated(req) THEN Refuse(req, 401)
       ELSE IF ~isFleetMember(req.fleetId, req.session) THEN Refuse(req, 403)
       ELSE /\ stockItems' = {i \in stockItems : i.id # req.id}
            /\ Answer(req, 200)
            /\ UNCHANGED <<fleets, fleetMembers, vehicles, tyreRows, alerts, nextId>>

GetAlerts(req) ==
    /\ req.route = "GET /api/fleets/:fleetId/alerts"
    /\ ListRoute(req)

MarkAllAlertsRead(req) ==
    /\ req.route = "PATCH /api/fleets/:fleetId/alerts/mark-all-read"
    /\ UNCHANGED pageVars
    /\ IF ~isAuthenticated(req) THEN Refuse(req, 401)
       ELSE IF ~isFleetMember(req.fleetId, req.session) THEN Refuse(req, 403)
       ELSE /\ alerts' = {IF a.fleetId = req.fleetId THEN [a EXCEPT !.isRead = TRUE] ELSE a :
                             a \in alerts}
            /\ Answer(req, 200)
            /\ UNCHANGED <<fleets, fleetMembers, vehicles, tyreRows, stockItems, nextId>>

\* markAlertRead(req.params.alertId): the row with that id, of any fleet
MarkAlertRead(req) ==
    /\ req.route = "PATCH /api/fleets/:fleetId/alerts/:alertId"
    /\ UNCHANGED pageVars
    /\ IF ~isAuthenticated(req) THEN Refuse(req, 401)
       ELSE IF ~isFleetMember(req.fleetId, req.session) THEN Refuse(req, 403)
       ELSE /\ alerts' = {IF a.id = req.id THEN [a EXCEPT !.isRead = TRUE] ELSE a :
                             a \in alerts}
            /\ Answer(req, 200)
            /\ UNCHANGED <<fleets, fleetMembers, vehicles, tyreRows, stockItems, nextId>>

-----------------------------------------------------------------------------
(* routes.ts: members, fleets and stats *)

GetMembers(req) ==
    /\ req.route = "GET /api/fleets/:fleetId/members"
    /\ ListRoute(req)

PostMember(req) ==
    /\ req.route = "POST /api/fleets/:fleetId/members"
    /\ UNCHANGED pageVars
    /\ IF ~isAuthenticated(req) THEN Refuse(req, 401)
       ELSE IF ~isFleetMember(req.fleetId, req.session) THEN Refuse(req, 403)
       ELSE IF ~addMemberSchema_success(req.body)
            THEN Invalid(req, addMemberSchema_errors(req.body))
       ELSE IF getUserByEmail(addMemberSchema_parse(req.body).email) = {}
            THEN Refuse(req, 404)
       ELSE IF \E u \in getUserByEmail(addMemberSchema_parse(req.body).email) :
                  isFleetMember(req.fleetId, u)
            THEN Refuse(req, 400)
       ELSE /\ nextId' = nextId + 1
            /\ fleetMembers' = fleetMembers \cup
                  {[id |-> NewId(nextId + 1), fleetId |-> req.fleetId,
                    role |-> addMemberSchema_parse(req.body).role, userId |-> u] :
                     u \in getUserByEmail(addMemberSchema_parse(req.body).email)}
            /\ Answer(req, 200)
            /\ UNCHANGED <<fleets, vehicles, tyreRows, stockItems, alerts>>

\* removeFleetMember(req.params.memberId): the row with that id, of any fleet
DeleteMember(req) ==
    /\ req.route = "DELETE /api/fleets/:fleetId/members/:memberId"
    /\ UNCHANGED pageVars
    /\ IF ~isAuthenticated(req) THEN Refuse(req, 401)
       ELSE IF ~isFleetMember(req.fleetId, req.session) THEN Refuse(req, 403)
       ELSE /\ fleetMembers' = {m \in fleetMembers : m.id # req.id}
            /\ Answer(req, 200)
            /\ UNCHANGED <<fleets, vehicles, tyreRows, stockItems, alerts, nextId>>

GetStats(req) ==
    /\ req.route = "GET /api/stats"
    /\ UNCHANGED pageVars
    /\ IF ~isAuthenticated(req) THEN Refuse(req, 401) ELSE Refuse(req, 200)

GetFleets(req) ==
    /\ req.route = "GET /api/fleets"
    /\ UNCHANGED pageVars
    /\ IF ~isAuthenticated(req) THEN Refuse(req, 401) ELSE Refuse(req, 200)

\* createFleetSchema.parse(req.body): the body is valid or it is not;
\* createFleet inserts the fleet and then its owner's membership
PostFleet(req) ==
    /\ req.route = "POST /api/fleets"
    /\ UNCHANGED pageVars
    /\ IF ~isAuthenticated(req) THEN Refuse(req, 401)
       ELSE IF ~req.body.valid THEN Invalid(req, {"body"})
       ELSE /\ nextId' = nextId + 2
            /\ fleets' = fleets \cup {[id |-> NewId(nextId + 1), ownerId |-> req.session]}
            /\ fleetMembers' = fleetMembers \cup
                  {[id |-> NewId(nextId + 2), fleetId |-> NewId(nextId + 1),
                    role |-> "owner", userId |-> req.session]}
            /\ Answer(req, 200)
            /\ UNCHANGED <<vehicles, tyreRows, stockItems, alerts>>

\* deleteFleet: the rows of the fleet in every table, then the fleet
DeleteFleet(req) ==
    /\ req.route = "DELETE /api/fleets/:id"
    /\ UNCHANGED pageVars
    /\ IF ~isAuthenticated(req) THEN Refuse(req, 401)
       ELSE IF \A f \in getFleet(req.fleetId) : f.ownerId # req.session THEN Refuse(req, 403)
       ELSE /\ alerts' = {a \in alerts : a.fleetId # req.fleetId}
            /\ stockItems' = {i \in stockItems : i.fleetId # req.fleetId}
            /\ tyreRows' = {t \in tyreRows : t.fleetId # req.fleetId}
            /\ vehicles' = {v \in vehicles : v.fleetId # req.fleetId}
            /\ fleetMembers' = {m \in fleetMembers : m.fleetId # req.fleetId}
            /\ fleets' = {f \in fleets : f.id # req.fleetId}
            /\ Answer(req, 200)
            /\ UNCHANGED nextId

-----------------------------------------------------------------------------
(* server: the stores the requests arrive at, and the requests *)

\* two fleets made through POST /api/fleets and POST .../members: u1 owns f1
\* and has added u2 with the role member; u3 owns f2
SeedFleets ==
    {[id |-> "f1", ownerId |-> "u1"], [id |-> "f2", ownerId |-> "u3"]}

SeedMembers ==
    {[id |-> "m1", fleetId |-> "f1", role |-> "owner", userId |-> "u1"],
     [id |-> "m2", fleetId |-> "f1", role |-> "member", userId |-> "u2"],
     [id |-> "m3", fleetId |-> "f2", role |-> "owner", userId |-> "u3"]}

\* no vehicle detail page is open
NoVehicle == [type |-> NULL, axleCount |-> NULL]

PageClosed ==
    /\ vehicle = NoVehicle
    /\ vehicleTyres = << >>
    /\ Blank

\* the server before the first request of a run
Seeded ==
    /\ fleets = SeedFleets
    /\ fleetMembers = SeedMembers
    /\ nextId = 0
    /\ request = NoRequest
    /\ response = NoResponse
    /\ inflight = NoHandlers

\* the bodies of the vehicle requests: one field given at a time, at and
\* beyond both ends of its range, null, not whole, and not given
VehicleBodies ==
    {[axleCount |-> a, year |-> Absent] :
        a \in {Absent, Null, Num(MinAxleCount - 1), Num(MinAxleCount), Num(MaxAxleCount),
               Num(MaxAxleCount + 1), Half(DefaultAxleCount)}}
    \cup
    {[axleCount |-> Absent, year |-> y] :
        y \in {Null, Num(MinYear - 1), Num(MinYear), Num(MaxYear), Num(MaxYear + 1)}}

\* the items of the batches: one valid, one with each field out of range
VehicleBatchItems ==
    {[axleCount |-> Absent, year |-> Absent],
     [axleCount |-> Num(MaxAxleCount + 1), year |-> Absent],
     [axleCount |-> Num(MaxAxleCount), year |-> Num(MinYear - 1)]}

\* the arrays of at most n items
Batches(items, n) == UNION {[1..k -> items] : k \in 0..n}

MaxBatch == 2

\* who sends the vehicle requests: nobody, a member of f1, a user who is not
VehicleSessions == {NoSession, "u2", "u3"}

\* the ids a path may name: those of the rows, and one of no row
Named(rows) == {r.id : r \in rows} \cup {"none"}

\* the rows a request can make the database insert
idsNeeded(req) ==
    CASE req.route = "POST /api/fleets" -> 2
      [] req.route \in {"POST /api/fleets/:fleetId/vehicles/batch",
                        "POST /api/fleets/:fleetId/tyres/batch"} -> Len(req.body)
      [] req.route \in {"POST /api/fleets/:fleetId/vehicles",
                        "POST /api/fleets/:fleetId/tyres",
                        "POST /api/fleets/:fleetId/stock",
                        "POST /api/fleets/:fleetId/members"} -> 1
      [] OTHER -> 0

\* a request of the set reqs comes in when the last one has been answered;
\* requests that could need more ids than MaxIds allows are left out
Receive(reqs) ==
    /\ request = NoRequest
    /\ \E req \in reqs :
          /\ nextId + idsNeeded(req) <= MaxIds
          /\ request' = req
    /\ response' = NoResponse
    /\ UNCHANGED storeVars
    /\ UNCHANGED inflight
    /\ UNCHANGED pageVars

InitVehicles ==
    /\ PageClosed
    /\ Seeded
    /\ vehicles = {}
    /\ tyreRows = {}
    /\ stockItems = {}
    /\ alerts = {}

\* the vehicle requests for fleet f1
VehicleRequests ==
    {Request("POST /api/fleets/:fleetId/vehicles", s, "f1", "", b) :
        s \in VehicleSessions, b \in VehicleBodies}
    \cup
    {Request("POST /api/fleets/:fleetId/vehicles/batch", s, "f1", "", b) :
        s \in VehicleSessions, b \in Batches(VehicleBatchItems, MaxBatch)}
    \cup
    {Request("PATCH /api/fleets/:fleetId/vehicles/:vehicleId", s, "f1", i, b) :
        s \in VehicleSessions, i \in Named(vehicles), b \in VehicleBodies}

NextVehicles ==
    \/ Receive(VehicleRequests)
    \/ PostVehicle(request)
    \/ PostVehiclesBatch(request)
    \/ PatchVehicle(request)

SpecVehicles == InitVehicles /\ [][NextVehicles]_vars

\* the positions the tyre requests carry: not given, null, two keys of the
\* enum, a key that is not of the enum, and a label instead of a key
TyrePositionInputs ==
    {ABSENT, NULL, "front_left", "outer_right", "rear_centre", "Front Left"}

TyreBodies == {[position |-> p, vehicleId |-> ABSENT] : p \in TyrePositionInputs}

TyreBatchItems ==
    {[position |-> "front_left", vehicleId |-> ABSENT],
     [position |-> "rear_centre", vehicleId |-> ABSENT]}

InitTyres ==
    /\ PageClosed
    /\ Seeded
    /\ vehicles = {}
    /\ tyreRows = {}
    /\ stockItems = {}
    /\ alerts = {}

\* the tyre requests for fleet f1, from nobody, a member of f1, and a user
\* who is not a member of f1
TyreRequests ==
    {Request("GET /api/fleets/:fleetId/tyres", s, "f1", "", << >>) :
        s \in VehicleSessions}
    \cup
    {Request("POST /api/fleets/:fleetId/tyres", s, "f1", "", b) :
        s \in VehicleSessions, b \in TyreBodies}
    \cup
    {Request("POST /api/fleets/:fleetId/tyres/batch", s, "f1", "", b) :
        s \in VehicleSessions, b \in Batches(TyreBatchItems, MaxBatch)}
    \cup
    {Request("PATCH /api/fleets/:fleetId/tyres/:tyreId", s, "f1", i, b) :
        s \in VehicleSessions, i \in Named(tyreRows), b \in TyreBodies}
    \cup
    {Request("DELETE /api/fleets/:fleetId/tyres/:tyreId", s, "f1", i, << >>) :
        s \in VehicleSessions, i \in Named(tyreRows)}

NextTyres ==
    \/ Receive(TyreRequests)
    \/ GetTyres(request)
    \/ PostTyre(request)
    \/ PostTyresBatch(request)
    \/ PatchTyre(request)
    \/ DeleteTyre(request)

SpecTyres == InitTyres /\ [][NextTyres]_vars

\* the bodies of POST .../members: a user who is not in f1, one who is, an
\* address of no account, and a string that is no address; every role
MemberBodies ==
    {[email |-> e, role |-> r] :
        e \in {emailOf("u3"), emailOf("u2"), "nobody@fleet.test", "not-an-email"},
        r \in {ABSENT, "admin", "member", "owner"}}

MemberSessions == {NoSession} \cup Users

InitMembers ==
    /\ PageClosed
    /\ Seeded
    /\ vehicles = {}
    /\ tyreRows = {}
    /\ stockItems = {}
    /\ alerts = {}

\* the member requests for both fleets, from nobody and from every user
MemberRequests ==
    {Request("GET /api/fleets/:fleetId/members", s, f.id, "", << >>) :
        s \in MemberSessions, f \in fleets}
    \cup
    {Request("POST /api/fleets/:fleetId/members", s, f.id, "", b) :
        s \in MemberSessions, f \in fleets, b \in MemberBodies}
    \cup
    {Request("DELETE /api/fleets/:fleetId/members/:memberId", s, f.id, i, << >>) :
        s \in MemberSessions, f \in fleets, i \in Named(fleetMembers)}

NextMembers ==
    \/ Receive(MemberRequests)
    \/ GetMembers(request)
    \/ PostMember(request)
    \/ DeleteMember(request)

SpecMembers == InitMembers /\ [][NextMembers]_vars

\* fleet f1 of u1 in use: a vehicle, a tyre and a stock item made through the
\* API, and an alert made by storage.createAlert, not yet read
InitApi ==
    /\ PageClosed
    /\ fleets = {[id |-> "f1", ownerId |-> "u1"]}
    /\ fleetMembers = {[id |-> "m1", fleetId |-> "f1", role |-> "owner", userId |-> "u1"]}
    /\ nextId = 0
    /\ request = NoRequest
    /\ response = NoResponse
    /\ inflight = NoHandlers
    /\ vehicles = {VehicleRow("v1", "f1",
                      createVehicleSchema_parse([axleCount |-> Absent, year |-> Absent]))}
    /\ tyreRows = {TyreRow("t1", "f1", [position |-> "front_left", vehicleId |-> "v1"])}
    /\ stockItems = {[id |-> "s1", fleetId |-> "f1"]}
    /\ alerts = {[id |-> "a1", fleetId |-> "f1", isRead |-> FALSE]}

\* who sends the requests: nobody, the owner of f1, a user who is not in f1
ApiSessions == {NoSession, "u1", "u3"}

\* a request of the route r to fleet f1, naming the row i, with the body b
ApiRequest(r, i, b) == {Request(r, s, "f1", i, b) : s \in ApiSessions}

\* one request set for every route registerRoutes registers
ApiRequests ==
    UNION (
    {ApiRequest(r, "", << >>) :
        r \in {"GET /api/stats", "GET /api/fleets", "DELETE /api/fleets/:id",
               "GET /api/fleets/:fleetId/vehicles", "GET /api/fleets/:fleetId/tyres",
               "GET /api/fleets/:fleetId/stock", "GET /api/fleets/:fleetId/alerts",
               "GET /api/fleets/:fleetId/members",
               "PATCH /api/fleets/:fleetId/alerts/mark-all-read"}}
    \cup
    {ApiRequest(r, "", [valid |-> v]) :
        r \in {"POST /api/fleets", "POST /api/fleets/:fleetId/stock"}, v \in BOOLEAN}
    \cup
    {ApiRequest("POST /api/fleets/:fleetId/vehicles", "", b) : b \in VehicleBatchItems}
    \cup
    {ApiRequest("POST /api/fleets/:fleetId/vehicles/batch", "", b) :
        b \in Batches(VehicleBatchItems, 1)}
    \cup
    {ApiRequest(r, i, << >>) :
        r \in {"GET /api/fleets/:fleetId/vehicles/:vehicleId",
               "DELETE /api/fleets/:fleetId/vehicles/:vehicleId"}, i \in Named(vehicles)}
    \cup
    {ApiRequest("PATCH /api/fleets/:fleetId/vehicles/:vehicleId", i, b) :
        i \in Named(vehicles), b \in VehicleBatchItems}
    \cup
    {ApiRequest("POST /api/fleets/:fleetId/tyres", "", b) : b \in TyreBatchItems}
    \cup
    {ApiRequest("POST /api/fleets/:fleetId/tyres/batch", "", b) :
        b \in Batches(TyreBatchItems, 1)}
    \cup
    {ApiRequest("PATCH /api/fleets/:fleetId/tyres/:tyreId", i, b) :
        i \in Named(tyreRows), b \in TyreBatchItems}
    \cup
    {ApiRequest("DELETE /api/fleets/:fleetId/tyres/:tyreId", i, << >>) :
        i \in Named(tyreRows)}
    \cup
    {ApiRequest("DELETE /api/fleets/:fleetId/stock/:stockId", i, << >>) :
        i \in Named(stockItems)}
    \cup
    {ApiRequest("PATCH /api/fleets/:fleetId/alerts/:alertId", i, << >>) :
        i \in Named(alerts)}
    \cup
    {ApiRequest("POST /api/fleets/:fleetId/members", "", [email |-> emailOf("u3"), role |-> r]) :
        r \in {ABSENT, "owner"}}
    \cup
    {ApiRequest("DELETE /api/fleets/:fleetId/members/:memberId", i, << >>) :
        i \in Named(fleetMembers)})

\* app.<method>(path, isAuthenticated, handler) for every route
NextApi ==
    \/ Receive(ApiRequests)
    \/ GetStats(request)
    \/ GetFleets(request)
    \/ PostFleet(request)
    \/ DeleteFleet(request)
    \/ GetVehicles(request)
    \/ PostVehicle(request)
    \/ PostVehiclesBatch(request)
    \/ GetVehicle(request)
    \/ PatchVehicle(request)
    \/ DeleteVehicle(request)
    \/ GetTyres(request)
    \/ PostTyresBatch(request)
    \/ PostTyre(request)
    \/ PatchTyre(request)
    \/ DeleteTyre(request)
    \/ GetStock(request)
    \/ PostStock(request)
    \/ DeleteStock(request)
    \/ GetAlerts(request)
    \/ MarkAllAlertsRead(request)
    \/ MarkAlertRead(request)
    \/ GetMembers(request)
    \/ PostMember(request)
    \/ DeleteMember(request)

SpecApi == InitApi /\ [][NextApi]_vars

\* fleet f1 in use next to fleet f2: the rows of InitApi, under the seeded
\* fleets and memberships
InitTenants ==
    /\ PageClosed
    /\ Seeded
    /\ vehicles = {VehicleRow("v1", "f1",
                      createVehicleSchema_parse([axleCount |-> Absent, year |-> Absent]))}
    /\ tyreRows = {TyreRow("t1", "f1", [position |-> "front_left", vehicleId |-> "v1"])}
    /\ stockItems = {[id |-> "s1", fleetId |-> "f1"]}
    /\ alerts = {[id |-> "a1", fleetId |-> "f1", isRead |-> FALSE]}

\* a request of the route r to the fleet f, naming the row i, with the body
\* b, from nobody, from a member of f1 and from the owner of f2
TenantRequest(r, f, i, b) == {Request(r, s, f, i, b) : s \in VehicleSessions}

\* the requests that change or delete a row named in the path, to either fleet
TenantRequests ==
    UNION (
    {TenantRequest("PATCH /api/fleets/:fleetId/vehicles/:vehicleId", f.id, i,
                   [axleCount |-> Num(MaxAxleCount), year |-> Absent]) :
        f \in fleets, i \in Named(vehicles)}
    \cup
    {TenantRequest("DELETE /api/fleets/:fleetId/vehicles/:vehicleId", f.id, i, << >>) :
        f \in fleets, i \in Named(vehicles)}
    \cup
    {TenantRequest("PATCH /api/fleets/:fleetId/tyres/:tyreId", f.id, i,
                   [position |-> "spare", vehicleId |-> ABSENT]) :
        f \in fleets, i \in Named(tyreRows)}
    \cup
    {TenantRequest("DELETE /api/fleets/:fleetId/tyres/:tyreId", f.id, i, << >>) :
        f \in fleets, i \in Named(tyreRows)}
    \cup
    {TenantRequest("DELETE /api/fleets/:fleetId/stock/:stockId", f.id, i, << >>) :
        f \in fleets, i \in Named(stockItems)}
    \cup
    {TenantRequest("PATCH /api/fleets/:fleetId/alerts/:alertId", f.id, i, << >>) :
        f \in fleets, i \in Named(alerts)}
    \cup
    {TenantRequest("PATCH /api/fleets/:fleetId/alerts/mark-all-read", f.id, "", << >>) :
        f \in fleets}
    \cup
    {TenantRequest("DELETE /api/fleets/:fleetId/members/:memberId", f.id, i, << >>) :
        f \in fleets, i \in Named(fleetMembers)})

NextTenants ==
    \/ Receive(TenantRequests)
    \/ PatchVehicle(request)
    \/ DeleteVehicle(request)
    \/ PatchTyre(request)
    \/ DeleteTyre(request)
    \/ DeleteStock(request)
    \/ MarkAlertRead(request)
    \/ MarkAllAlertsRead(request)
    \/ DeleteMember(request)

SpecTenants == InitTenants /\ [][NextTenants]_vars

\* the vehicle ids a tyre body may carry: not given, null, the id of a stored
\* vehicle, an id of no vehicle
VehicleIdInputs == {ABSENT, NULL} \cup Named(vehicles)

\* fleet f1 holds a vehicle and a tyre fitted to it
InitFitting ==
    /\ PageClosed
    /\ Seeded
    /\ vehicles = {VehicleRow("v1", "f1",
                      createVehicleSchema_parse([axleCount |-> Absent, year |-> Absent]))}
    /\ tyreRows = {TyreRow("t1", "f1", [position |-> "front_left", vehicleId |-> "v1"])}
    /\ stockItems = {}
    /\ alerts = {}

\* who fits tyres: a member of f1 and the owner of f2
FittingSessions == {"u2", "u3"}

FittingRequest(r, f, i, b) == {Request(r, s, f, i, b) : s \in FittingSessions}

\* the vehicle and tyre create, update and delete requests, and the GET of a
\* vehicle with its tyres, to either fleet
FittingRequests ==
    UNION (
    {FittingRequest("POST /api/fleets/:fleetId/vehicles", f.id, "",
                    [axleCount |-> Absent, year |-> Absent]) : f \in fleets}
    \cup
    {FittingRequest("GET /api/fleets/:fleetId/vehicles/:vehicleId", f.id, i, << >>) :
        f \in fleets, i \in Named(vehicles)}
    \cup
    {FittingRequest("PATCH /api/fleets/:fleetId/vehicles/:vehicleId", f.id, i,
                    [axleCount |-> Num(MaxAxleCount), year |-> Absent]) :
        f \in fleets, i \in Named(vehicles)}
    \cup
    {FittingRequest("DELETE /api/fleets/:fleetId/vehicles/:vehicleId", f.id, i, << >>) :
        f \in fleets, i \in Named(vehicles)}
    \cup
    {FittingRequest("POST /api/fleets/:fleetId/tyres", f.id, "",
                    [position |-> "front_left", vehicleId |-> v]) :
        f \in fleets, v \in VehicleIdInputs}
    \cup
    {FittingRequest("PATCH /api/fleets/:fleetId/tyres/:tyreId", f.id, i,
                    [position |-> ABSENT, vehicleId |-> v]) :
        f \in fleets, i \in Named(tyreRows), v \in VehicleIdInputs}
    \cup
    {FittingRequest("DELETE /api/fleets/:fleetId/tyres/:tyreId", f.id, i, << >>) :
        f \in fleets, i \in Named(tyreRows)})

NextFitting ==
    \/ Receive(FittingRequests)
    \/ PostVehicle(request)
    \/ GetVehicle(request)
    \/ PatchVehicle(request)
    \/ DeleteVehicle(request)
    \/ PostTyre(request)
    \/ PatchTyre(request)
    \/ DeleteTyre(request)

SpecFitting == InitFitting /\ [][NextFitting]_vars

(* routes.ts: handlers that run side by side. An async handler runs to its
   next await, where the handler of another request may run. *)

\* the handler on connection c moves to pc
Step(c, pc) == inflight' = [inflight EXCEPT ![c].pc = pc]

\* the handler on connection c answers: res.status(status).json(...)
Done(c, status) == inflight' = [inflight EXCEPT ![c].pc = "idle", ![c].status = status]

\* the handlers that have not answered
Running == {c \in Conns : inflight[c].pc # "idle"}

\* the first await of the handler of a route
FirstAwait(req) ==
    IF req.route = "DELETE /api/fleets/:id" THEN "getFleet" ELSE "isFleetMember"

\* express hands a request of the set reqs to a handler; isAuthenticated
\* runs at once. Requests that could need more ids than MaxIds allows are
\* left out
Accept(c, reqs) ==
    /\ inflight[c].pc = "idle"
    /\ \E req \in reqs :
          /\ nextId + Cardinality(Running) + 1 <= MaxIds
          /\ inflight' = [inflight EXCEPT ![c] =
                IF isAuthenticated(req) THEN Handler(req, FirstAwait(req), 0)
                ELSE Handler(req, "idle", 401)]
    /\ UNCHANGED <<storeVars, request, response>>
    /\ UNCHANGED pageVars

\* every handler of a fleet route: await storage.isFleetMember(fleetId, userId)
AwaitIsFleetMember(c, next) ==
    /\ inflight[c].pc = "isFleetMember"
    /\ IF isFleetMember(inflight[c].req.fleetId, inflight[c].req.session)
       THEN Step(c, next)
       ELSE Done(c, 403)
    /\ UNCHANGED <<storeVars, request, response>>
    /\ UNCHANGED pageVars

\* POST members: addMemberSchema.parse, await storage.getUserByEmail, then
\* await storage.isFleetMember(fleetId, user.id)
PostMemberFrom(c) ==
    /\ inflight[c].req.route = "POST /api/fleets/:fleetId/members"
    /\ AwaitIsFleetMember(c,
          IF ~addMemberSchema_success(inflight[c].req.body) THEN "ZodError"
          ELSE "getUserByEmail")

\* catch (error) of a ZodError: res.status(400).json(...)
AnswerZodError(c) ==
    /\ inflight[c].pc = "ZodError"
    /\ Done(c, 400)
    /\ UNCHANGED <<storeVars, request, response>>
    /\ UNCHANGED pageVars

PostMemberUser(c) ==
    /\ inflight[c].pc = "getUserByEmail"
    /\ IF getUserByEmail(addMemberSchema_parse(inflight[c].req.body).email) = {}
       THEN Done(c, 404)
       ELSE Step(c, "alreadyMember")
    /\ UNCHANGED <<storeVars, request, response>>
    /\ UNCHANGED pageVars

PostMemberAlready(c) ==
    /\ inflight[c].pc = "alreadyMember"
    /\ IF \E u \in getUserByEmail(addMemberSchema_parse(inflight[c].req.body).email) :
             isFleetMember(inflight[c].req.fleetId, u)
       THEN Done(c, 400)
       ELSE Step(c, "addFleetMember")
    /\ UNCHANGED <<storeVars, request, response>>
    /\ UNCHANGED pageVars

\* await storage.addFleetMember(...); res.json(member)
PostMemberAdd(c) ==
    /\ inflight[c].pc = "addFleetMember"
    /\ nextId' = nextId + 1
    /\ fleetMembers' = fleetMembers \cup
          {[id |-> NewId(nextId + 1), fleetId |-> inflight[c].req.fleetId,
            role |-> addMemberSchema_parse(inflight[c].req.body).role, userId |-> u] :
             u \in getUserByEmail(addMemberSchema_parse(inflight[c].req.body).email)}
    /\ Done(c, 200)
    /\ UNCHANGED <<fleets, vehicles, tyreRows, stockItems, alerts, request, response>>
    /\ UNCHANGED pageVars

\* add-member requests to fleet f1 from its two members: for a user who is
\* not in the fleet, one who is, and an address of no account
JoinRequests ==
    {Request("POST /api/fleets/:fleetId/members", s, "f1", "", [email |-> e, role |-> r]) :
        s \in {NoSession, "u1", "u2"},
        e \in {emailOf("u3"), emailOf("u2"), "nobody@fleet.test", "not-an-email"},
        r \in {ABSENT, "admin"}}

InitJoin ==
    /\ PageClosed
    /\ Seeded
    /\ vehicles = {}
    /\ tyreRows = {}
    /\ stockItems = {}
    /\ alerts = {}

NextJoin ==
    \E c \in Conns :
        \/ Accept(c, JoinRequests)
        \/ PostMemberFrom(c)
        \/ AnswerZodError(c)
        \/ PostMemberUser(c)
        \/ PostMemberAlready(c)
        \/ PostMemberAdd(c)

SpecJoin == InitJoin /\ [][NextJoin]_vars

-----------------------------------------------------------------------------

(* DELETE /api/fleets/:id and POST vehicles, side by side *)

\* POST vehicles: createVehicleSchema.parse after the membership test
PostVehicleFrom(c) ==
    /\ inflight[c].req.route = "POST /api/fleets/:fleetId/vehicles"
    /\ AwaitIsFleetMember(c,
          IF ~createVehicleSchema_success(inflight[c].req.body) THEN "ZodError"
          ELSE "createVehicle")

\* await storage.createVehicle({...parsed, fleetId}); res.json(vehicle)
PostVehicleCreate(c) ==
    /\ inflight[c].pc = "createVehicle"
    /\ IF ~integerColumns(createVehicleSchema_parse(inflight[c].req.body))
       THEN Done(c, 500) /\ UNCHANGED storeVars
       ELSE /\ nextId' = nextId + 1
            /\ vehicles' = vehicles \cup
                  {VehicleRow(NewId(nextId + 1), inflight[c].req.fleetId,
                              createVehicleSchema_parse(inflight[c].req.body))}
            /\ Done(c, 200)
            /\ UNCHANGED <<fleets, fleetMembers, tyreRows, stockItems, alerts>>
    /\ UNCHANGED <<request, response>>
    /\ UNCHANGED pageVars

\* DELETE fleet: const fleet = await storage.getFleet(req.params.id);
\* if (!fleet || fleet.ownerId !== userId) return res.status(403)
DeleteFleetGet(c) ==
    /\ inflight[c].pc = "getFleet"
    /\ IF \A f \in getFleet(inflight[c].req.fleetId) : f.ownerId # inflight[c].req.session
       THEN Done(c, 403)
       ELSE Step(c, "delete alerts")
    /\ UNCHANGED <<storeVars, request, response>>
    /\ UNCHANGED pageVars

\* deleteFleet: await db.delete(alerts).where(eq(alerts.fleetId, id))
DeleteFleetAlerts(c) ==
    /\ inflight[c].pc = "delete alerts"
    /\ alerts' = {a \in alerts : a.fleetId # inflight[c].req.fleetId}
    /\ Step(c, "delete stockItems")
    /\ UNCHANGED <<fleets, fleetMembers, vehicles, tyreRows, stockItems, nextId,
                   request, response>>
    /\ UNCHANGED pageVars

DeleteFleetStock(c) ==
    /\ inflight[c].pc = "delete stockItems"
    /\ stockItems' = {i \in stockItems : i.fleetId # inflight[c].req.fleetId}
    /\ Step(c, "delete tyres")
    /\ UNCHANGED <<fleets, fleetMembers, vehicles, tyreRows, alerts, nextId,
                   request, response>>
    /\ UNCHANGED pageVars

DeleteFleetTyres(c) ==
    /\ inflight[c].pc = "delete tyres"
    /\ tyreRows' = {t \in tyreRows : t.fleetId # inflight[c].req.fleetId}
    /\ Step(c, "delete vehicles")
    /\ UNCHANGED <<fleets, fleetMembers, vehicles, stockItems, alerts, nextId,
                   request, response>>
    /\ UNCHANGED pageVars

DeleteFleetVehicles(c) ==
    /\ inflight[c].pc = "delete vehicles"
    /\ vehicles' = {v \in vehicles : v.fleetId # inflight[c].req.fleetId}
    /\ Step(c, "delete fleetMembers")
    /\ UNCHANGED <<fleets, fleetMembers, tyreRows, stockItems, alerts, nextId,
                   request, response>>
    /\ UNCHANGED pageVars

DeleteFleetMembers(c) ==
    /\ inflight[c].pc = "delete fleetMembers"
    /\ fleetMembers' = {m \in fleetMembers : m.fleetId # inflight[c].req.fleetId}
    /\ Step(c, "delete fleets")
    /\ UNCHANGED <<fleets, vehicles, tyreRows, stockItems, alerts, nextId,
                   request, response>>
    /\ UNCHANGED pageVars

\* await db.delete(fleets).where(eq(fleets.id, id)); res.json({ success: true })
DeleteFleetRow(c) ==
    /\ inflight[c].pc = "delete fleets"
    /\ fleets' = {f \in fleets : f.id # inflight[c].req.fleetId}
    /\ Done(c, 200)
    /\ UNCHANGED <<fleetMembers, vehicles, tyreRows, stockItems, alerts, nextId,
                   request, response>>
    /\ UNCHANGED pageVars

\* DELETE of fleet f1 by its owner, by a member and by nobody; vehicle
\* creates in f1 by a member, by a user who is not one, valid and not
DisbandRequests ==
    {Request("DELETE /api/fleets/:id", s, "f1", "", << >>) : s \in {NoSession, "u1", "u2"}}
    \cup
    {Request("POST /api/fleets/:fleetId/vehicles", s, "f1", "", b) :
        s \in {"u2", "u3"},
        b \in {[axleCount |-> Absent, year |-> Absent],
               [axleCount |-> Num(MaxAxleCount + 1), year |-> Absent]}}

NextDisband ==
    \E c \in Conns :
        \/ Accept(c, DisbandRequests)
        \/ PostVehicleFrom(c)
        \/ AnswerZodError(c)
        \/ PostVehicleCreate(c)
        \/ DeleteFleetGet(c)
        \/ DeleteFleetAlerts(c)
        \/ DeleteFleetStock(c)
        \/ DeleteFleetTyres(c)
        \/ DeleteFleetVehicles(c)
        \/ DeleteFleetMembers(c)
        \/ DeleteFleetRow(c)

\* fleet f1 in use next to fleet f2, no handler running
SpecDisband == InitTenants /\ [][NextDisband]_vars

-----------------------------------------------------------------------------

(* fleets and their owners *)

\* fleet creations by every user, and the member requests of MemberRequests
\* with one body
OwnerRequests ==
    {Request("POST /api/fleets", s, "", "", [valid |-> v]) :
        s \in MemberSessions, v \in BOOLEAN}
    \cup
    {Request("POST /api/fleets/:fleetId/members", s, f.id, "",
             [email |-> emailOf("u3"), role |-> ABSENT]) :
        s \in MemberSessions, f \in fleets}
    \cup
    {Request("DELETE /api/fleets/:fleetId/members/:memberId", s, f.id, i, << >>) :
        s \in MemberSessions, f \in fleets, i \in Named(fleetMembers)}

NextOwners ==
    \/ Receive(OwnerRequests)
    \/ PostFleet(request)
    \/ PostMember(request)
    \/ DeleteMember(request)

SpecOwners == InitMembers /\ [][NextOwners]_vars

-----------------------------------------------------------------------------

(* What the claims read *)

Min(a, b) == IF a <= b THEN a ELSE b

SlotIds == {slots[i].id : i \in 1..Len(slots)}

\* the slot ids that hold a tyre in the map m
Filled(m) == {k \in DOMAIN m : m[k] # None}

\* the slots whose position key is p, in slot-list order
SlotsAt(p) == SelectSeq(slots, LAMBDA s : s.position = p)

\* the tyres whose position is p, in tyre-list order
TyresAt(p) == SelectSeq(vehicleTyres, LAMBDA t : t.position = p)

\* the matcher has returned
Matched == pcPage = "done"

-----------------------------------------------------------------------------
(* C1: in the mapping matchTyresToSlots returns, no tyre id is the value of
   two different slot ids. *)
C1_TyreInAtMostOneSlot ==
    Matched =>
        \A k1, k2 \in Filled(tyreMap) :
            tyreMap[k1][1].id = tyreMap[k2][1].id => k1 = k2

\* two tyres are shown, one in a slot of its own position and one by overflow
C1_Witness ==
    /\ Matched
    /\ \E i, j \in 1..Len(slots) :
          /\ slots[i].id \in Filled(tyreMap)
          /\ slots[j].id \in Filled(tyreMap)
          /\ tyreMap[slots[i].id][1].position = slots[i].position
          /\ tyreMap[slots[j].id][1].position # slots[j].position

(* C2: matchTyresToSlots returns a mapping whose keys are exactly the slot
   ids and whose values are each null or one tyre of the input list, for
   every slot list and tyre list, the empty tyre list included. *)
C2_TotalMapping ==
    Matched =>
        /\ DOMAIN tyreMap = SlotIds
        /\ \A k \in DOMAIN tyreMap :
              \/ tyreMap[k] = None
              \/ \E i \in 1..Len(vehicleTyres) : tyreMap[k] = Some(vehicleTyres[i])

\* a result that holds a tyre in one slot and null in another
C2_Witness ==
    /\ Matched
    /\ Filled(tyreMap) # {}
    /\ \E k \in DOMAIN tyreMap : tyreMap[k] = None /\ k # "sp"

\* the empty tyre list: every slot is mapped to null
C2_WitnessEmpty ==
    /\ Matched
    /\ vehicleTyres = << >>
    /\ SlotIds # {}
    /\ Filled(tyreMap) = {}

(* C3: direct pass: for every position key p the i-th tyre with position p
   (tyre-list order) is the value of the i-th slot with key p (slot-list
   order), for every i up to the smaller of the two counts. *)
C3_DirectPassByInputOrder ==
    pcPage \in {"direct", "done"} =>
        \A p \in tyrePositionEnum :
            \A i \in 1..Min(Len(SlotsAt(p)), Len(TyresAt(p))) :
                tyreMap[SlotsAt(p)[i].id] = Some(TyresAt(p)[i])

\* two tyres share a position key that two slots share
C3_Witness ==
    /\ Matched
    /\ \E p \in tyrePositionEnum :
          /\ Len(SlotsAt(p)) >= 2
          /\ Len(TyresAt(p)) >= 2
          /\ tyreMap[SlotsAt(p)[2].id] = Some(TyresAt(p)[2])

\* the tyres no slot holds in the map m, in tyre-list order
Unconsumed(m) ==
    SelectSeq(vehicleTyres, LAMBDA t : \A k \in DOMAIN m : m[k] # Some(t))

\* the slots other than the spare that are null in the map m, in slot-list order
StillNull(m) ==
    SelectSeq(slots, LAMBDA s : m[s.id] = None /\ s.position # "spare")

(* C4: overflow step: the j-th tyre the direct pass did not consume goes to
   the j-th slot that the direct pass left null and that is not the spare,
   until either runs out; nothing else changes. *)
C4_OverflowStep ==
    [][ (pcPage = "direct" /\ pcPage' = "done") =>
          LET n == Min(Len(Unconsumed(tyreMap)), Len(StillNull(tyreMap)))
              target == {StillNull(tyreMap)[j].id : j \in 1..n}
          IN /\ DOMAIN tyreMap' = DOMAIN tyreMap
             /\ \A j \in 1..n :
                   tyreMap'[StillNull(tyreMap)[j].id] = Some(Unconsumed(tyreMap)[j])
             /\ \A k \in (DOMAIN tyreMap) \ target : tyreMap'[k] = tyreMap[k]
      ]_vars

\* two tyres with no slot of their own are shown in two slots, in list order,
\* and a third is not shown although the spare is empty
C4_Witness ==
    /\ Matched
    /\ tyreMap["sp"] = None
    /\ \E a, b, c \in 1..Len(vehicleTyres) :
          /\ a < b
          /\ \A k \in DOMAIN tyreMap : tyreMap[k] # Some(vehicleTyres[c])
          /\ \E i, j \in 1..Len(slots) :
                /\ i < j
                /\ tyreMap[slots[i].id] = Some(vehicleTyres[a])
                /\ tyreMap[slots[j].id] = Some(vehicleTyres[b])
                /\ vehicleTyres[a].position # slots[i].position
                /\ vehicleTyres[b].position # slots[j].position

-----------------------------------------------------------------------------
(* What the claims about the generator read *)

\* the diagram has its slots
Rendered == pcPage = "rendered"

\* the dropdown has its options
Offered == pcForm = "options"

SlotPairs == [i \in 1..Len(slots) |-> <<slots[i].position, slots[i].label>>]

OptionPairs ==
    [i \in 1..Len(positionOptions) |->
        <<positionOptions[i].value, positionOptions[i].label>>]

Keys(pairs) == [i \in 1..Len(pairs) |-> pairs[i][1]]

(* C5: the (value, label) list of the dropdown equals the (position, label)
   list of the diagram's slots, for every vehicle type and axle count. *)
C5_DropdownIsDiagram ==
    (Rendered /\ Offered) => OptionPairs = SlotPairs

(* C6: every position value of a generated slot and every value of a
   dropdown option is a member of the tyre position enum, which is what the
   server accepts as a tyre's position. *)
C6_PositionsInEnum ==
    /\ Rendered =>
          \A i \in 1..Len(slots) :
              /\ slots[i].position \in tyrePositionEnum
              /\ createTyreSchemaPosition(slots[i].position)
    /\ Offered =>
          \A i \in 1..Len(positionOptions) :
              /\ positionOptions[i].value \in tyrePositionEnum
              /\ createTyreSchemaPosition(positionOptions[i].value)

\* a heavy vehicle whose diagram uses the rear_left key beside the dual keys
C6_Witness ==
    /\ Rendered
    /\ Offered
    /\ category = "heavy"
    /\ \E i, j \in 1..Len(slots) :
          slots[i].position = "rear_left" /\ slots[j].position = "outer_left"

SpareCount(keys) == Cardinality({i \in 1..Len(keys) : keys[i] = "spare"})

(* C7: for every category and axle count the generated list is not empty
   and holds exactly one spare. *)
C7_ExactlyOneSpare ==
    /\ Rendered => Len(slots) >= 1 /\ SpareCount(Keys(SlotPairs)) = 1
    /\ Offered => Len(positionOptions) >= 1 /\ SpareCount(Keys(OptionPairs)) = 1

\* a heavy vehicle of ten axles: the spare is the last of 39 slots
C7_Witness ==
    /\ Rendered
    /\ Offered
    /\ category = "heavy"
    /\ vehicle.axleCount = MaxAxleCount
    /\ slots[Len(slots)].position = "spare"
    /\ Len(slots) = 39

\* the category the data model gives for a type and an axle count
DerivedCategory(type, axleCount) ==
    CASE type = "dump_truck" -> "dump"
      [] type \in {"truck", "bus"} -> "heavy"
      [] type = "trailer" /\ axleCount >= 3 -> "heavy"
      [] type = "trailer" /\ axleCount < 3 -> "service"
      [] type \in {"service_vehicle", "van"} -> "service"
      [] OTHER -> "light"

(* C8: getVehicleCategory returns dump for dump_truck, heavy for truck and
   bus, heavy for a trailer of three axles or more and service for a smaller
   one, service for service_vehicle and van, light for every other string;
   the copy of the diagram page and the copy of the dropdown library agree. *)
C8_CategoryDerivation ==
    /\ Rendered => category = DerivedCategory(vehicle.type, vehicle.axleCount)
    /\ Offered => formCategory = DerivedCategory(vehicle.type, vehicle.axleCount)
    /\ (Rendered /\ Offered) => category = formCategory

\* a trailer of exactly three axles is heavy in both copies
C8_Witness ==
    /\ Rendered
    /\ Offered
    /\ vehicle = [type |-> "trailer", axleCount |-> 3]
    /\ category = "heavy"
    /\ formCategory = "heavy"

\* a type string no code knows is light in both copies
C8_WitnessUnknown ==
    /\ Rendered
    /\ Offered
    /\ vehicle.type = "hovercraft"
    /\ category = "light"
    /\ formCategory = "light"

\* the position keys of a heavy vehicle of n axles
HeavyKeys(keys, n) ==
    /\ Len(keys) = 2 + 4 * (n - 1) + 1
    /\ keys[1] = "front_left"
    /\ keys[2] = "front_right"
    /\ \A a \in 1..(n - 1) :
          SubSeq(keys, 4 * a - 1, 4 * a + 2) =
              IF a = 1
              THEN <<"outer_left", "inner_left", "inner_right", "outer_right">>
              ELSE <<"rear_left", "rear_left", "rear_right", "rear_right">>
    /\ keys[Len(keys)] = "spare"

(* C9: for category heavy and n axles the generator returns 2 + 4*(n-1) + 1
   slots: front_left, front_right, four dual slots for each rear axle index
   1..n-1, then spare; axle index 1 has the keys outer_left, inner_left,
   inner_right, outer_right and every later axle rear_left, rear_left,
   rear_right, rear_right. *)
C9_HeavyLayout ==
    /\ (Rendered /\ category = "heavy") =>
          HeavyKeys(Keys(SlotPairs), vehicle.axleCount)
    /\ (Offered /\ formCategory = "heavy") =>
          HeavyKeys(Keys(OptionPairs), vehicle.axleCount)

\* C9 read of the diagram's slots alone
C9_HeavyLayoutOfDiagram ==
    (Rendered /\ category = "heavy") =>
        /\ HeavyKeys(Keys(SlotPairs), vehicle.axleCount)
        /\ vehicle.axleCount = 4 => Len(slots) = 15

DualSuffixes == <<" Left Outer", " Left Inner", " Right Inner", " Right Outer">>

\* the (key, label) pairs of a dump truck of n axles
DumpPairs(pairs, n) ==
    LET first == IF n >= 3 THEN 2 ELSE 1
        base == IF n >= 3 THEN 4 ELSE 2
    IN /\ Len(pairs) = base + 4 * (n - first) + 1
       /\ pairs[1][1] = "front_left"
       /\ pairs[2][1] = "front_right"
       /\ n >= 3 => /\ pairs[3] = <<"rear_left", "Axle 2 Left">>
                    /\ pairs[4] = <<"rear_right", "Axle 2 Right">>
       /\ \A a \in first..(n - 1) :
             \A k \in 1..4 :
                 pairs[base + 4 * (a - first) + k] =
                     << <<"outer_left", "inner_left", "inner_right", "outer_right">>[k],
                        "Axle " \o ToString(a + 1) \o DualSuffixes[k] >>
       /\ pairs[Len(pairs)][1] = "spare"
       /\ SpareCount(Keys(pairs)) = 1
       /\ n = 3 => Len(pairs) = 9
       /\ n = 2 => Len(pairs) = 7

(* C10: for category dump and n axles the generator returns front_left,
   front_right; for n >= 3 a non-dual pair "Axle 2 Left" / "Axle 2 Right"
   with keys rear_left / rear_right; then for each axle index a from
   (2 if n >= 3, else 1) to n-1 four dual slots labelled "Axle {a+1} ..."
   with keys outer_left, inner_left, inner_right, outer_right; then one
   spare: 9 slots for n = 3 and 7 for n = 2. *)
C10_DumpLayout ==
    /\ (Rendered /\ category = "dump") =>
          /\ DumpPairs(SlotPairs, vehicle.axleCount)
          /\ \A i \in 1..Len(slots) :
                slots[i].isDual <=>
                    slots[i].position \in
                        {"outer_left", "inner_left", "inner_right", "outer_right"}
    /\ (Offered /\ formCategory = "dump") =>
          DumpPairs(OptionPairs, vehicle.axleCount)

\* a dump truck of three axles: nine slots, the second axle single
C10_Witness ==
    /\ Rendered
    /\ Offered
    /\ category = "dump"
    /\ vehicle.axleCount = 3
    /\ Len(slots) = 9
    /\ slots[3].label = "Axle 2 Left" /\ ~slots[3].isDual
    /\ slots[5].label = "Axle 3 Left Outer" /\ slots[5].isDual
    /\ Len(positionOptions) = 9

-----------------------------------------------------------------------------
(* C11: for the categories light and service the list is fixed, whatever the
   axle count: light is front_left, front_right, rear_left, rear_right,
   spare; service is front_left, front_right, outer_left, inner_left,
   inner_right, outer_right, spare; in the diagram and in the dropdown. *)
LightKeys == <<"front_left", "front_right", "rear_left", "rear_right", "spare">>

ServiceKeys ==
    <<"front_left", "front_right", "outer_left", "inner_left", "inner_right",
      "outer_right", "spare">>

C11_FixedLightAndService ==
    /\ (Rendered /\ category = "light") => Keys(SlotPairs) = LightKeys
    /\ (Rendered /\ category = "service") => Keys(SlotPairs) = ServiceKeys
    /\ (Offered /\ formCategory = "light") => Keys(OptionPairs) = LightKeys
    /\ (Offered /\ formCategory = "service") => Keys(OptionPairs) = ServiceKeys

\* a van recorded with ten axles is drawn and offered with the seven slots
C11_Witness ==
    /\ Rendered
    /\ Offered
    /\ vehicle = [type |-> "van", axleCount |-> MaxAxleCount]
    /\ category = "service"
    /\ Len(slots) = 7
    /\ Len(positionOptions) = 7

\* the labels of a heavy list of n axles: the steer pair, then four labels
\* for every rear axle
HeavyLabels(pairs, n) ==
    /\ Len(pairs) = 2 + 4 * (n - 1) + 1
    /\ pairs[1][2] = "Front Left"
    /\ pairs[2][2] = "Front Right"
    /\ \A a \in 1..(n - 1) : \A k \in 1..4 :
          pairs[2 + 4 * (a - 1) + k][2] =
              (IF n = 2 THEN "Rear" ELSE "Axle " \o ToString(a + 1)) \o DualSuffixes[k]

(* C12: for category heavy the front pair is labelled Front Left / Front
   Right; the rear labels start with "Rear" when the axle count is 2 and
   with "Axle {a+1}" for rear axle index a when it is greater. *)
C12_HeavyLabels ==
    /\ (Rendered /\ category = "heavy") => HeavyLabels(SlotPairs, vehicle.axleCount)
    /\ (Offered /\ formCategory = "heavy") => HeavyLabels(OptionPairs, vehicle.axleCount)

\* a truck of two axles: its one rear axle is labelled Rear
C12_Witness ==
    /\ Rendered
    /\ Offered
    /\ category = "heavy"
    /\ vehicle.axleCount = 2
    /\ slots[3].label = "Rear Left Outer"
    /\ positionOptions[6].label = "Rear Right Outer"

(* C15: for the categories heavy and dump and one axle the list is
   front_left, front_right, spare and nothing else, in the diagram and in the
   dropdown. *)
C15_OneAxle ==
    /\ (Rendered /\ category \in {"heavy", "dump"} /\ vehicle.axleCount = 1) =>
          /\ Keys(SlotPairs) = <<"front_left", "front_right", "spare">>
          /\ [i \in 1..Len(slots) |-> slots[i].id] = <<"fl", "fr", "sp">>
    /\ (Offered /\ formCategory \in {"heavy", "dump"} /\ vehicle.axleCount = 1) =>
          Keys(OptionPairs) = <<"front_left", "front_right", "spare">>

\* a dump truck of one axle is drawn and offered with three slots
C15_Witness ==
    /\ Rendered
    /\ Offered
    /\ vehicle = [type |-> "dump_truck", axleCount |-> 1]
    /\ category = "dump"
    /\ Len(slots) = 3
    /\ Len(positionOptions) = 3

(* C16: for every category and every axle count from 1 to 10 the ids of the
   generated slots are pairwise distinct: a map keyed by slot id has as many
   keys as the list has slots. *)
C16_DistinctSlotIds ==
    Rendered =>
       /\ \A i, j \in 1..Len(slots) : slots[i].id = slots[j].id => i = j
       /\ Cardinality(SlotIds) = Len(slots)

\* a dump truck of ten axles: 37 slots with 37 ids
C16_Witness ==
    /\ Rendered
    /\ vehicle = [type |-> "dump_truck", axleCount |-> MaxAxleCount]
    /\ Len(slots) = 37
    /\ Cardinality(SlotIds) = 37

-----------------------------------------------------------------------------
\* the slots that hold, in the map m, a tyre recorded without a position
HoldsNullTyre(m) == {k \in Filled(m) : m[k][1].position = NULL}

(* C14: the direct pass assigns no tyre whose position is null; such a tyre
   is in the result only in a slot that was still null after the direct pass
   and is not the spare, where the overflow step put it. *)
C14_NullPositionTyre ==
    [][ /\ (pcPage = "rendered" /\ pcPage' = "direct") => HoldsNullTyre(tyreMap') = {}
        /\ (pcPage = "direct" /\ pcPage' = "done") =>
              HoldsNullTyre(tyreMap') \subseteq
                  {StillNull(tyreMap)[i].id : i \in 1..Len(StillNull(tyreMap))}
      ]_vars

\* a tyre without a position is shown in a slot the direct pass left empty,
\* next to a tyre the direct pass placed
C14_Witness ==
    /\ Matched
    /\ HoldsNullTyre(tyreMap) # {}
    /\ \E k \in Filled(tyreMap) \ HoldsNullTyre(tyreMap) :
          \E i \in 1..Len(slots) :
             slots[i].id = k /\ slots[i].position = tyreMap[k][1].position

-----------------------------------------------------------------------------
\* the tyre list has one tyre for every slot other than the spare, carrying
\* that slot's key, and no other tyre
OnePerNonSpareSlot ==
    /\ Len(vehicleTyres) = Len(slots) - 1
    /\ TyresAt("spare") = << >>
    /\ \A i \in 1..Len(slots) :
          slots[i].position # "spare" =>
              Len(TyresAt(slots[i].position)) = Len(SlotsAt(slots[i].position))
    /\ \A i \in 1..Len(vehicleTyres) : SlotsAt(vehicleTyres[i].position) # << >>

(* C13: a truck of three axles is category heavy and is drawn with 11 slots;
   with 10 tyres, one for every slot but the spare and each with its slot's
   key, the matcher fills 10 slots and leaves exactly one empty, the spare. *)
C13_TruckThreeAxles ==
    /\ (pcPage # "loaded" /\ vehicle = [type |-> "truck", axleCount |-> 3]) =>
          /\ category = "heavy"
          /\ Len(slots) = 11
    /\ (Matched /\ vehicle = [type |-> "truck", axleCount |-> 3] /\ OnePerNonSpareSlot) =>
          /\ Cardinality(Filled(tyreMap)) = 10
          /\ {slots[i].position : i \in {j \in 1..Len(slots) : tyreMap[slots[j].id] = None}}
                = {"spare"}
          /\ Cardinality(DOMAIN tyreMap \ Filled(tyreMap)) = 1

\* the ten tyres arrive with the rear ones first, and every one is shown in a
\* slot of its own key
C13_Witness ==
    /\ Matched
    /\ OnePerNonSpareSlot
    /\ Len(vehicleTyres) = 10
    /\ vehicleTyres[1].position = "rear_left"
    /\ tyreMap["sp"] = None
    /\ \A i \in 1..Len(slots) :
          slots[i].id # "sp" =>
              /\ tyreMap[slots[i].id] # None
              /\ tyreMap[slots[i].id][1].position = slots[i].position

-----------------------------------------------------------------------------
(* What the claims about the server read *)

\* the user u has a membership row in the fleet f
MemberOf(u, f) == \E m \in fleetMembers : m.userId = u /\ m.fleetId = f

\* a number given in a body that is not within lo..hi
Outside(v, lo, hi) ==
    \/ v.tag = "number" /\ (v.n < lo \/ v.n > hi)
    \/ v.tag = "half" /\ (v.n < lo \/ v.n >= hi)

CarriesOutOfRange(body) ==
    \/ Outside(body.axleCount, MinAxleCount, MaxAxleCount)
    \/ Outside(body.year, MinYear, MaxYear)

VehiclesInRange ==
    \A v \in vehicles :
       /\ v.axleCount \in MinAxleCount..MaxAxleCount
       /\ v.year.tag = "null" \/ (v.year.tag = "number" /\ v.year.n \in MinYear..MaxYear)

\* the request being handled comes from a member of the fleet it names
FromMember == request.session # NoSession /\ MemberOf(request.session, request.fleetId)

(* C17: every stored vehicle has axleCount in 1..10 and a year that is null
   or in 1990..2030, whatever vehicle create, batch and patch requests came
   before; a create or a patch that carries a value out of range changes no
   vehicle and, sent by a member of the fleet (a patch: for a vehicle of the
   fleet), is answered 400; a batch stores only rows of its items that carry
   no value out of range. *)
C17_VehicleRanges ==
    /\ []VehiclesInRange
    /\ [][ /\ (/\ request.route \in {"POST /api/fleets/:fleetId/vehicles",
                                     "PATCH /api/fleets/:fleetId/vehicles/:vehicleId"}
               /\ CarriesOutOfRange(request.body)) =>
                 /\ vehicles' = vehicles
                 /\ (/\ FromMember
                     /\ request.route = "PATCH /api/fleets/:fleetId/vehicles/:vehicleId" =>
                           \E v \in vehicles : v.id = request.id /\ v.fleetId = request.fleetId)
                    => response'.status = 400
           /\ request.route = "POST /api/fleets/:fleetId/vehicles/batch" =>
                 LET inRange == {k \in 1..Len(request.body) :
                                    ~CarriesOutOfRange(request.body[k])}
                 IN /\ vehicles \subseteq vehicles'
                    /\ Cardinality(vehicles' \ vehicles) <= Cardinality(inRange)
                    /\ \A v \in vehicles' \ vehicles : \E k \in inRange :
                          /\ v.axleCount = (IF request.body[k].axleCount = Absent
                                            THEN DefaultAxleCount
                                            ELSE request.body[k].axleCount.n)
                          /\ v.year = (IF request.body[k].year = Absent
                                       THEN Null ELSE request.body[k].year)
         ]_vars

\* a vehicle of ten axles is stored, and a request has just been refused for
\* its axleCount
C17_Witness ==
    /\ response.status = 400
    /\ "axleCount" \in response.errors
    /\ \E v \in vehicles : v.axleCount = MaxAxleCount
    /\ \E v \in vehicles : v.year = Num(MaxYear)

TyrePositionsValid ==
    \A t \in tyreRows : t.position = NULL \/ t.position \in tyrePositionEnum

(* C18: a tyre create or update whose position is a string that is not of the
   position enum changes no stored tyre and, sent by a member of the fleet
   (an update: for a tyre of the fleet), is answered 400; so every stored
   tyre's position is null or of the enum, whatever tyre requests came
   before. *)
C18_TyrePositionRejected ==
    /\ []TyrePositionsValid
    /\ [][ (/\ request.route \in {"POST /api/fleets/:fleetId/tyres",
                                  "PATCH /api/fleets/:fleetId/tyres/:tyreId"}
            /\ request.body.position \notin tyrePositionEnum \cup {NULL, ABSENT}) =>
              /\ tyreRows' = tyreRows
              /\ (/\ FromMember
                  /\ request.route = "PATCH /api/fleets/:fleetId/tyres/:tyreId" =>
                        \E t \in tyreRows : t.id = request.id /\ t.fleetId = request.fleetId)
                 => /\ response'.status = 400
                    /\ response'.errors = {"position"}
         ]_vars

\* tyres are stored with a key of the enum and with no position, and a
\* request has just been refused for its position
C18_Witness ==
    /\ response = [status |-> 400, errors |-> {"position"}]
    /\ \E t \in tyreRows : t.position = "outer_right"
    /\ \E t \in tyreRows : t.position = NULL


\* the roles the user u has in the fleet f
RolesOf(u, f) == {m.role : m \in {x \in fleetMembers : x.userId = u /\ x.fleetId = f}}

(* C19: a request to add a member to a fleet or to remove one from it changes
   the memberships only when the requester's role in that fleet is owner or
   admin; from a user whose role is member nothing changes. *)
C19_RoleBasedMembers ==
    [][ (/\ request.route \in {"POST /api/fleets/:fleetId/members",
                               "DELETE /api/fleets/:fleetId/members/:memberId"}
         /\ RolesOf(request.session, request.fleetId) \cap {"owner", "admin"} = {})
        => fleetMembers' = fleetMembers ]_vars


(* C20: on every /api/stats and /api/fleets... route a request without a
   session userId is answered 401 and changes no stored fleet, member,
   vehicle, tyre, stock item or alert. *)
C20_SessionRequired ==
    [][ (request # NoRequest /\ request.session = NoSession) =>
           /\ response'.status = 401
           /\ <<fleets, fleetMembers, vehicles, tyreRows, stockItems, alerts>>' =
              <<fleets, fleetMembers, vehicles, tyreRows, stockItems, alerts>>
      ]_vars

\* a request has just been answered 401, with rows in every table
C20_Witness ==
    /\ response.status = 401
    /\ request = NoRequest
    /\ \A rows \in {fleets, fleetMembers, vehicles, tyreRows, stockItems, alerts} : rows # {}
    /\ \E a \in alerts : ~a.isRead


-----------------------------------------------------------------------------
\* the slots of the diagram whose key is spare
SpareSlotIds == {slots[i].id : i \in {j \in 1..Len(slots) : slots[j].position = "spare"}}

(* C21: in the result of matchTyresToSlots a slot whose position is spare
   holds null or a tyre whose own position is spare, after the direct pass
   and after the overflow step. *)
C21_SpareSlotHoldsSpare ==
    pcPage \in {"direct", "done"} =>
        \A k \in SpareSlotIds :
            tyreMap[k] = None \/ tyreMap[k][1].position = "spare"

\* the spare slot is the only slot left empty, and a tyre whose position is
\* not spare is left out of the result rather than put there
C21_Witness ==
    /\ Matched
    /\ SpareSlotIds # {}
    /\ Filled(tyreMap) = SlotIds \ SpareSlotIds
    /\ \E i \in 1..Len(Unconsumed(tyreMap)) : Unconsumed(tyreMap)[i].position # "spare"

\* every tyre of the list is the value of some slot
AllShown == Unconsumed(tyreMap) = << >>

(* C22: the overflow step brings the number of filled slots from D, the
   number the direct pass assigned, to D + min(T - D, E), with T the number
   of tyres and E the number of non-spare slots the direct pass left null;
   so the result fills at most min(slots, tyres) slots, and a tyre is absent
   from it only if every non-spare slot is filled. *)
C22_FilledCount ==
    /\ [](Matched =>
            /\ Cardinality(Filled(tyreMap)) <= Min(Len(slots), Len(vehicleTyres))
            /\ ~AllShown => StillNull(tyreMap) = << >>)
    /\ [][ (pcPage = "direct" /\ pcPage' = "done") =>
              Cardinality(Filled(tyreMap')) =
                  Cardinality(Filled(tyreMap)) +
                  Min(Len(vehicleTyres) - Cardinality(Filled(tyreMap)),
                      Len(StillNull(tyreMap)))
         ]_vars

\* one tyre placed by the direct pass, the others by overflow until the
\* slots other than the spare ran out, and a tyre left over
C22_Witness ==
    /\ Matched
    /\ ~AllShown
    /\ Len(vehicleTyres) = MaxTyres
    /\ \E k \in Filled(tyreMap) :
          \E i \in 1..Len(slots) :
             slots[i].id = k /\ slots[i].position = tyreMap[k][1].position
    /\ \E k \in Filled(tyreMap) :
          \E i \in 1..Len(slots) :
             slots[i].id = k /\ slots[i].position # tyreMap[k][1].position

\* the slots with key p that hold a tyre whose position is p, in the map m
OwnKey(m, p) ==
    {i \in 1..Len(slots) :
        /\ slots[i].position = p
        /\ m[slots[i].id] # None
        /\ m[slots[i].id][1].position = p}

(* C23: the overflow step changes no slot the direct pass filled, and in the
   final result, for every position key p, the slots with key p that hold a
   tyre whose position is p number min(slots with key p, tyres with
   position p). *)
C23_OverflowKeepsDirect ==
    /\ [](Matched =>
            \A p \in tyrePositionEnum :
                Cardinality(OwnKey(tyreMap, p)) = Min(Len(SlotsAt(p)), Len(TyresAt(p))))
    /\ [][ (pcPage = "direct" /\ pcPage' = "done") =>
              \A k \in Filled(tyreMap) : tyreMap'[k] = tyreMap[k] ]_vars

\* one slot holds the tyre of its own key from the direct pass; another,
\* whose key no tyre carries, holds a tyre that overflowed
C23_Witness ==
    /\ Matched
    /\ \E p, q \in tyrePositionEnum :
          /\ OwnKey(tyreMap, p) # {}
          /\ TyresAt(q) = << >>
          /\ \E i \in 1..Len(slots) : slots[i].position = q /\ tyreMap[slots[i].id] # None

-----------------------------------------------------------------------------
\* the option picked in the form for the i-th tyre of the list
ChosenOption(i) ==
    positionOptions[CHOOSE k \in 1..Len(positionOptions) : TyreId(k) = vehicleTyres[i].id]

(* C24: dropdown-to-diagram round trip: when each option of the dropdown is
   chosen for at most one tyre and the tyres are listed in option order, the
   matcher places every tyre in the slot whose label is the label of the
   option chosen for it. *)
C24_RoundTrip ==
    (Matched /\ pcForm = "saved") =>
        \A i \in 1..Len(vehicleTyres) :
            \E j \in 1..Len(slots) :
                /\ slots[j].label = ChosenOption(i).label
                /\ tyreMap[slots[j].id] = Some(vehicleTyres[i])

-----------------------------------------------------------------------------
\* the request in hand may touch the row r: r is of the fleet of the path
\* and the requester is a member of that fleet
MayTouch(r) ==
    /\ r.fleetId = request.fleetId
    /\ MemberOf(request.session, request.fleetId)

(* C25: tenant isolation of mutations: a request to a route
   /api/fleets/:fleetId/... deletes or modifies a vehicle, tyre, stock item,
   alert or membership only if the row's fleetId is :fleetId and the
   requester is a member of that fleet. *)
C25_TenantIsolation ==
    [][ /\ \A r \in vehicles \ vehicles' : MayTouch(r)
        /\ \A r \in tyreRows \ tyreRows' : MayTouch(r)
        /\ \A r \in stockItems \ stockItems' : MayTouch(r)
        /\ \A r \in alerts \ alerts' : MayTouch(r)
        /\ \A r \in fleetMembers \ fleetMembers' : MayTouch(r)
      ]_vars


(* C26: every stored tyre whose vehicleId is not null refers to a stored
   vehicle of the tyre's own fleet, so the tyres returned with a vehicle by
   GET /api/fleets/:fleetId/vehicles/:vehicleId are tyres of the vehicle's
   fleet. *)
C26_TyreVehicleIntegrity ==
    /\ \A t \in tyreRows :
          t.vehicleId # NULL =>
             \E v \in vehicles : v.id = t.vehicleId /\ v.fleetId = t.fleetId
    /\ \A v \in vehicles :
          \A t \in getVehicleWithTyres(v.id) : t.fleetId = v.fleetId

-----------------------------------------------------------------------------
(* C27: no user has more than one membership in the same fleet, whatever the
   interleaving of the add-member requests; a request to add a user who is
   already a member adds nothing. *)
C27_OneMembershipPerUser ==
    \A m1, m2 \in fleetMembers :
        (m1.fleetId = m2.fleetId /\ m1.userId = m2.userId) => m1 = m2


\* the rows of fleet f in the five tables deleteFleet empties
RowsOf(f) ==
    <<{a \in alerts : a.fleetId = f}, {i \in stockItems : i.fleetId = f},
      {t \in tyreRows : t.fleetId = f}, {v \in vehicles : v.fleetId = f},
      {m \in fleetMembers : m.fleetId = f}>>

\* the handler on connection c answers a DELETE of a fleet in this step
DeleteAnswered(c) ==
    /\ inflight[c].req.route = "DELETE /api/fleets/:id"
    /\ inflight[c].pc # "idle"
    /\ inflight'[c].pc = "idle"

(* C28: once a DELETE /api/fleets/:id by the owner has completed, no alert,
   stock item, tyre, vehicle or membership with that fleetId is stored, also
   when creates of members interleave with the deletion; a DELETE by a user
   who is not the owner is answered 403 and deletes nothing. *)
C28_DeleteFleetLeavesNothing ==
    /\ [](\A f \in {x.id : x \in SeedFleets} \ {x.id : x \in fleets} :
             RowsOf(f) = <<{}, {}, {}, {}, {}>>)
    /\ [][ \A c \in Conns :
              (/\ DeleteAnswered(c)
               /\ \A f \in SeedFleets :
                     f.id = inflight[c].req.fleetId => f.ownerId # inflight[c].req.session)
              => /\ inflight'[c].status = 403
                 /\ UNCHANGED storeVars ]_vars


(* C29: every stored fleet has a membership with role owner whose userId is
   the fleet's ownerId: creating a fleet adds it, and no fleet-creation,
   add-member or remove-member request removes it while the fleet exists. *)
C29_OwnerIsMember ==
    \A f \in fleets :
        \E m \in fleetMembers :
            m.fleetId = f.id /\ m.userId = f.ownerId /\ m.role = "owner"


(* C30: on the vehicle detail page the "Tyres Fitted" numerator, the number
   of the vehicle's tyres whose position is neither null nor spare, never
   exceeds the denominator, the number of slots whose position is not
   spare. *)
C30_FittedWithinSlots ==
    pcPage \in {"rendered", "direct", "done"} =>
        fittedCount(vehicleTyres) <= totalSlots(slots)

====
